---- MODULE Spec2Model ----
(***************************************************************************)
(* darwinup: a root-overlay installer.  The model follows Depot.cpp        *)
(* (src/unnamed/part_001, lines 1-1156) and the command loop of main       *)
(* (src/unnamed/part_001, lines 1419-1556).  File.cpp and Archive.cpp are  *)
(* not part of the sources at hand; File::compare, File::install,          *)
(* File::install_info, File::remove and the selector resolution follow     *)
(* the design description.                                                 *)
(***************************************************************************)
EXTENDS Integers, Sequences, FiniteSets, TLC

(***************************************************************************)
(* Bounds of the model.                                                    *)
(***************************************************************************)
\* Number of install commands issued in one behaviour.
MaxInstalls == 3
\* Number of modifications the user makes to live files in one behaviour.
MaxMods == 1
\* Number of process kills in one behaviour.
MaxCrashes == 2
\* Number of verify commands issued in one behaviour.
MaxVerifies == 1

(***************************************************************************)
(* The universe of paths, relative to the prefix, in strcmp order: the     *)
(* order of "ORDER BY path" and of the fts walk.  Parent[i] = 0 is the     *)
(* prefix itself.                                                          *)
(***************************************************************************)
PathNames == <<"/d", "/d/f", "/g", "/h", "/h/i", "/h/i/j">>
Paths == 1..Len(PathNames)
Parent == <<0, 1, 0, 0, 4, 5>>

\* Content digests: 0 stands for "no digest" (directories, no-entry).
Data == 1..3

(***************************************************************************)
(* Filesystem objects and file records share one shape.                    *)
(* kind: "none" (nothing there), "reg", "dir", "sym"; in a record also     *)
(* "noent" (the NoEntry placeholder) and "null" (a NULL File pointer).     *)
(***************************************************************************)
Obj(k, m, d) == [kind |-> k, mode |-> m, uid |-> 0, gid |-> 0, digest |-> d]
None == Obj("none", 0, 0)
Reg(d) == Obj("reg", 0, d)
Sym(d) == Obj("sym", 0, d)
Dir(m) == Obj("dir", m, 0)

FILE_INFO_BASE_SYSTEM == "BASE_SYSTEM"
FILE_INFO_NO_ENTRY == "NO_ENTRY"
FILE_INFO_INSTALL_DATA == "INSTALL_DATA"
FILE_INFO_ROLLBACK_DATA == "ROLLBACK_DATA"

\* INFO_TEST(word, flag): some bit of flag is set in word.
INFO_TEST(info, flags) == (info \cap flags) # {}

\* A File object: a record of the files table, or one built from the disk.
File(serial, archive, info, path, o) ==
  [serial |-> serial, archive |-> archive, info |-> info, path |-> path,
   kind |-> o.kind, mode |-> o.mode, uid |-> o.uid, gid |-> o.gid,
   digest |-> o.digest]
NULL == File(0, 0, {}, 0, Obj("null", 0, 0))
\* new NoEntry(path)
NoEntry(path) == File(0, 0, {FILE_INFO_NO_ENTRY}, path, Obj("noent", 0, 0))
\* The filesystem object a file record describes.
ObjOf(f) == [kind |-> f.kind, mode |-> f.mode, uid |-> f.uid, gid |-> f.gid,
             digest |-> f.digest]
S_ISDIR(f) == f.kind = "dir"

\* FileFactory(path): lstat the live path; NULL when nothing is there.
FileFactory(tree, path) ==
  IF tree[path].kind = "none" THEN NULL ELSE File(0, 0, {}, path, tree[path])

(***************************************************************************)
(* File::compare: the set of difference kinds; {} is FILE_INFO_IDENTICAL.  *)
(***************************************************************************)
FILE_INFO_IDENTICAL == {}
compare(a, b) ==
  IF a.kind = "null" \/ b.kind = "null"
  THEN IF a = b THEN {} ELSE {"TYPE", "MODE", "UID", "GID", "DATA"}
  ELSE IF a.kind = "noent" /\ b.kind = "noent" THEN {}
  ELSE (IF a.kind # b.kind THEN {"TYPE"} ELSE {})
       \cup (IF a.mode # b.mode THEN {"MODE"} ELSE {})
       \cup (IF a.uid # b.uid THEN {"UID"} ELSE {})
       \cup (IF a.gid # b.gid THEN {"GID"} ELSE {})
       \cup (IF a.digest # b.digest THEN {"DATA"} ELSE {})

(***************************************************************************)
(* The archives handed to install: a name (the basename) and the staged    *)
(* tree.  "root" exists in two builds, as for an upgrade.                  *)
(***************************************************************************)
Tree(d, f, g) == <<d, f, g, None, None, None>>
\* A tree that holds the chain /h, /h/i, /h/i/j only.
Chain(h, i, j) == <<None, None, None, h, i, j>>
Roots ==
  << [name |-> "root",  tree |-> Tree(Dir(0), Reg(1), None)],
     [name |-> "root",  tree |-> Tree(Dir(1), Reg(2), Reg(2))],
     [name |-> "root3", tree |-> Tree(None, None, Reg(1))],
     [name |-> "empty", tree |-> Tree(None, None, None)],
     [name |-> "root5", tree |-> Chain(Dir(0), Dir(0), Reg(1))],
     [name |-> "root6", tree |-> Tree(Dir(0), Obj("reg", 1, 3), None)],
     [name |-> "root7", tree |-> Tree(Dir(0), Reg(3), None)] >>
RootIds == 1..Len(Roots)

\* The destinations before any install.
Pristine ==
  { Tree(None, None, None),
    Tree(Dir(0), Reg(3), Sym(1)),
    Tree(None, None, Dir(0)),
    Tree(Reg(3), None, None) }

Procs == {1, 2}

\* The destination prefixes: the default, and a directory given with -p.
Prefixes == {"/", "/dest"}

VARIABLES
  live,       \* the tree under the prefix (outside the depot directory)
  archives,   \* rows of table archives
  files,      \* rows of table files
  seq,        \* the AUTOINCREMENT counters of both tables
  expanded,   \* Archives/<uuid>/ directories: layer serial -> tree
  compacted,  \* compacted copies of backing directories: layer serial -> tree
  lock,       \* flock mode of each process on the depot directory
  pc,         \* each process's position
  ctx,        \* each process's locals (archive, rollback, InstallContext, res)
  pristine,   \* history: the tree before any install
  log,        \* history: the commands that returned, with their results
  mods,       \* history: the modifications made by the user, in order
  ncrashes,   \* history: processes killed
  m_prefix    \* the destination prefix the depot was opened with (-p DIR)

vars == <<live, archives, files, seq, expanded, compacted, lock, pc, ctx,
          pristine, log, mods, ncrashes, m_prefix>>

(***************************************************************************)
(* Catalog queries.                                                        *)
(***************************************************************************)
ARCHIVE_INFO_ROLLBACK == "ROLLBACK"

\* Depot::archive(serial): the row, as a set of zero or one element.
archive(as, serial) == {a \in as : a.serial = serial}

FilesOf(fs, serial) == {f \in fs : f.archive = serial}

\* "... WHERE archive<? AND path=? ORDER BY archive DESC LIMIT 1"
file_preceded_by_asc(fs, file) ==
  LET rows == {f \in fs : f.archive < file.archive /\ f.path = file.path}
  IN IF rows = {} THEN NULL
     ELSE CHOOSE f \in rows : \A g \in rows : g.archive >= f.archive

file_preceded_by(fs, file) ==
  LET rows == {f \in fs : f.archive < file.archive /\ f.path = file.path}
  IN IF rows = {} THEN NULL
     ELSE CHOOSE f \in rows : \A g \in rows : g.archive <= f.archive

file_superseded_by_none(fs, file) == NULL

\* "... WHERE archive>? AND path=? ORDER BY archive ASC LIMIT 1"
file_superseded_by(fs, file) ==
  LET rows == {f \in fs : f.archive > file.archive /\ f.path = file.path}
  IN IF rows = {} THEN NULL
     ELSE CHOOSE f \in rows : \A g \in rows : g.archive >= f.archive

\* iterate_files: the row that follows position pos in "ORDER BY path".
NextFile(fs, serial, pos) ==
  LET rows == {f \in FilesOf(fs, serial) : f.path > pos}
  IN IF rows = {} THEN NULL
     ELSE CHOOSE f \in rows : \A g \in rows : g.path >= f.path

\* Depot::check_consistency, its scan: "SELECT serial FROM archives WHERE
\* active=0"; a row whose active column is NULL does not compare equal to 0.
check_consistency(as) == {a.serial : a \in {b \in as : b.active = "0"}}

(***************************************************************************)
(* Depot::analyze_stage, one entry of the walk: the three-way diff of the  *)
(* file to install (file), the live object (actual) and the catalog's      *)
(* predecessor (preceding).  Each stage hands its values to the next.      *)
(***************************************************************************)
SetInfo(f, flags) == [f EXCEPT !.info = @ \cup flags]

AnalyzeResult_anystate(file, actual, state, preceding_flags) ==
  [file |-> file, actual |-> actual, state |-> state,
   insert_rollback |->
     state # " "
     \/ INFO_TEST(actual.info,
                  {FILE_INFO_BASE_SYSTEM, FILE_INFO_ROLLBACK_DATA})]

\* "insert rollback": the condition under which actual becomes a row of the
\* rollback archive; the entry's outcome.
AnalyzeResult(file, actual, state, preceding_flags) ==
  [file |-> file, actual |-> actual, state |-> state,
   insert_rollback |->
     (state # " " /\ preceding_flags # FILE_INFO_IDENTICAL)
     \/ INFO_TEST(actual.info,
                  {FILE_INFO_BASE_SYSTEM, FILE_INFO_ROLLBACK_DATA})]

\* The state character printed for the entry.
AnalyzeState(actual, actual_flags, preceding_flags) ==
  IF actual_flags # FILE_INFO_IDENTICAL
  THEN IF INFO_TEST(actual.info, {FILE_INFO_NO_ENTRY}) THEN "A" ELSE "U"
  ELSE IF preceding_flags = FILE_INFO_IDENTICAL THEN " " ELSE "?"

NeedsInstall_data(actual_flags) == INFO_TEST(actual_flags, {"DATA"})

NeedsInstall_anydiff(actual_flags) == actual_flags # FILE_INFO_IDENTICAL

\* "needs installation" and "needs user data backup".
NeedsInstall(actual_flags) ==
  /\ actual_flags # FILE_INFO_IDENTICAL
  /\ INFO_TEST(actual_flags, {"TYPE", "DATA"})
NeedsBackup_unchanged(actual, actual_flags, preceding_flags) ==
  /\ NeedsInstall(actual_flags)
  /\ ~INFO_TEST(actual.info, {FILE_INFO_NO_ENTRY})

NeedsBackup(actual, actual_flags, preceding_flags) ==
  /\ NeedsInstall(actual_flags)
  /\ INFO_TEST(preceding_flags, {"TYPE", "DATA"})
  /\ ~INFO_TEST(actual.info, {FILE_INFO_NO_ENTRY})

AnalyzeFlags(file, actual, actual_flags, preceding_flags) ==
  AnalyzeResult(
    SetInfo(file, IF NeedsInstall(actual_flags)
                  THEN {FILE_INFO_INSTALL_DATA} ELSE {}),
    SetInfo(actual, IF NeedsBackup(actual, actual_flags, preceding_flags)
                    THEN {FILE_INFO_ROLLBACK_DATA} ELSE {}),
    AnalyzeState(actual, actual_flags, preceding_flags),
    preceding_flags)

AnalyzeDiff(file, actual, preceding) ==
  AnalyzeFlags(file, actual, compare(file, actual), compare(actual, preceding))

\* "needs base system backup, and installation"
NeedsBase_anyfile(actual) == ~S_ISDIR(actual)

NeedsBase_dirs(actual) == ~INFO_TEST(actual.info, {FILE_INFO_NO_ENTRY})

NeedsBase(actual) ==
  ~S_ISDIR(actual) /\ ~INFO_TEST(actual.info, {FILE_INFO_NO_ENTRY})
BaseSystem(actual) ==
  SetInfo(actual, {FILE_INFO_BASE_SYSTEM} \cup
                  (IF NeedsBase(actual) THEN {FILE_INFO_ROLLBACK_DATA} ELSE {}))

\* preceding == NULL: "Nothing is known about this file".
AnalyzeBase(file, actual, preceding) ==
  IF preceding = NULL
  THEN AnalyzeDiff(SetInfo(file, IF NeedsBase(actual)
                                 THEN {FILE_INFO_INSTALL_DATA} ELSE {}),
                   BaseSystem(actual), BaseSystem(actual))
  ELSE AnalyzeDiff(file, actual, preceding)

\* actual == NULL: the placeholder.
ActualOrNoEntry(actual, path) == IF actual = NULL THEN NoEntry(path) ELSE actual

AnalyzeFile(fs, tree, file) ==
  AnalyzeBase(file, ActualOrNoEntry(FileFactory(tree, file.path), file.path),
              file_preceded_by(fs, file))

AnalyzeEntry(fs, tree, root, path, aser) ==
  AnalyzeFile(fs, tree, File(0, aser, {}, path, Roots[root].tree[path]))

\* Depot::insert(Archive*, File*): the row gets the next files serial.
insert_file(st, aser, file) ==
  [st EXCEPT !.files = @ \cup {[file EXCEPT !.serial = st.fseq + 1,
                                            !.archive = aser]},
             !.fseq = @ + 1]

\* fprintf(stderr, "%c %s\n", state, file->path()): the status line.
print_state(st, state, path) == [st EXCEPT !.out = Append(@, <<state, path>>)]

insert_entry_uncounted(st, e, aser, rser) ==
  insert_file(print_state(IF e.insert_rollback
                          THEN insert_file(st, rser, e.actual)
                          ELSE st,
                          e.state, e.file.path),
              aser, e.file)

\* The rows an entry adds: actual to the rollback archive when asked for,
\* the status line, then file to the archive;
\* st = [files, fseq, rollback_files, out].
insert_entry(st, e, aser, rser) ==
  insert_file(print_state(IF e.insert_rollback
                          THEN [insert_file(st, rser, e.actual)
                                  EXCEPT !.rollback_files = @ + 1]
                          ELSE st,
                          e.state, e.file.path),
              aser, e.file)

\* The walk from entry i on, in path order.
RECURSIVE analyze_from(_, _, _, _, _, _)
analyze_from(i, st, tree, root, aser, rser) ==
  IF i > Len(PathNames) THEN st
  ELSE analyze_from(
         i + 1,
         IF Roots[root].tree[i].kind = "none" THEN st
         ELSE insert_entry(st, AnalyzeEntry(st.files, tree, root, i, aser),
                           aser, rser),
         tree, root, aser, rser)

analyze_stage(fs, fseq, tree, root, aser, rser) ==
  analyze_from(1, [files |-> fs, fseq |-> fseq, rollback_files |-> 0,
                   out |-> <<>>],
               tree, root, aser, rser)

(***************************************************************************)
(* File operations on the live tree.  Each yields [ok, tree].              *)
(***************************************************************************)
HasChildren(tree, path) ==
  \E q \in Paths : Parent[q] = path /\ tree[q].kind # "none"

ParentIsDir(tree, path) ==
  Parent[path] = 0 \/ tree[Parent[path]].kind = "dir"

\* The directories above a path, below the prefix.
RECURSIVE Ancestors(_)
Ancestors(path) ==
  IF Parent[path] = 0 THEN {}
  ELSE {Parent[path]} \cup Ancestors(Parent[path])

\* The target at path is replaced by the object o: what was below a replaced
\* directory is gone with it.
Replace(tree, path, o) ==
  [q \in Paths |-> IF q = path THEN o
                   ELSE IF path \in Ancestors(q) THEN None
                   ELSE tree[q]]

\* File::install: lay the record's content down from the backing store
\* (store[path], kind "none" when the bytes are not there).  A directory is
\* created with the recorded mode if absent, else only mode and owner of
\* what is there are adjusted; a regular file or a symlink replaces the
\* target if present.
FileInstall(tree, store, f) ==
  IF ~ParentIsDir(tree, f.path)
  THEN [ok |-> FALSE, tree |-> tree]
  ELSE IF f.kind = "dir"
  THEN [ok |-> TRUE,
        tree |-> IF tree[f.path].kind = "none"
                 THEN [tree EXCEPT ![f.path] = ObjOf(f)]
                 ELSE [tree EXCEPT ![f.path].mode = f.mode,
                                   ![f.path].uid = f.uid,
                                   ![f.path].gid = f.gid]]
  ELSE IF store[f.path].kind = "none"
  THEN [ok |-> FALSE, tree |-> tree]
  ELSE [ok |-> TRUE, tree |-> Replace(tree, f.path, store[f.path])]

\* File::install_info: mode, uid and gid only.
FileInstallInfo(tree, f) ==
  IF tree[f.path].kind = "none"
  THEN [ok |-> FALSE, tree |-> tree]
  ELSE [ok |-> TRUE,
        tree |-> [tree EXCEPT ![f.path].mode = f.mode,
                              ![f.path].uid = f.uid,
                              ![f.path].gid = f.gid]]

\* File::remove: unlink; rmdir, which leaves a non-empty directory alone.
FileRemove(tree, path) ==
  IF tree[path].kind = "dir" /\ HasChildren(tree, path)
  THEN [ok |-> TRUE, tree |-> tree]
  ELSE [ok |-> TRUE, tree |-> [tree EXCEPT ![path] = None]]

EmptyTree == [q \in Paths |-> None]

\* The bytes a layer's backing store can deliver: its expanded directory,
\* else its compacted copy.
Backing(exp, cmp, serial) ==
  IF serial \in DOMAIN exp THEN exp[serial]
  ELSE IF serial \in DOMAIN cmp THEN cmp[serial]
  ELSE EmptyTree

Put(fn, k, v) == [x \in DOMAIN fn \cup {k} |-> IF x = k THEN v ELSE fn[x]]
Drop(fn, ks) == [x \in DOMAIN fn \ ks |-> fn[x]]

\* remove_directory(path) on the backing directory of key k.
remove_directory(exp, k) == Drop(exp, {k})

(***************************************************************************)
(* Depot::uninstall_file.  Yields the new tree, the serials to add to      *)
(* files_to_remove, the state character, whether the status line is        *)
(* printed and whether assert(preceding) failed.                           *)
(***************************************************************************)
\* "changes since install; skipping"
ChangedSinceInstall_type(actual, flags) ==
  actual # NULL /\ INFO_TEST(flags, {"TYPE"})

ChangedSinceInstall(actual, flags) ==
  actual # NULL /\ flags # FILE_INFO_IDENTICAL

RemovePreceding_base(info) ==
  INFO_TEST(info, {FILE_INFO_NO_ENTRY, FILE_INFO_ROLLBACK_DATA})

\* The predecessor row is scheduled for deletion.
RemovePreceding(info) ==
  /\ INFO_TEST(info, {FILE_INFO_NO_ENTRY, FILE_INFO_ROLLBACK_DATA})
  /\ ~INFO_TEST(info, {FILE_INFO_BASE_SYSTEM})

uninstall_file(fs, tree, exp, cmp, file) ==
  LET keep == [ok |-> TRUE, tree |-> tree, remove |-> {}, state |-> " ",
               abort |-> FALSE, print |-> TRUE]
      actual == FileFactory(tree, file.path)
      flags == compare(file, actual)
      superseded == file_superseded_by(fs, file)
      preceding == file_preceded_by(fs, file)
      pflags == compare(file, preceding)
      r == IF INFO_TEST(preceding.info, {FILE_INFO_NO_ENTRY})
           THEN IF actual # NULL
                THEN FileRemove(tree, file.path) @@ [state |-> "R"]
                ELSE [ok |-> TRUE, tree |-> tree, state |-> "R"]
           ELSE IF INFO_TEST(pflags, {"DATA"})
           THEN FileInstall(tree, Backing(exp, cmp, preceding.archive),
                            preceding) @@ [state |-> "U"]
           ELSE IF INFO_TEST(pflags, {"MODE", "GID", "UID"})
           THEN FileInstallInfo(tree, preceding) @@ [state |-> " "]
           ELSE [ok |-> TRUE, tree |-> tree, state |-> " "]
  IN IF INFO_TEST(file.info, {FILE_INFO_BASE_SYSTEM})
     THEN [keep EXCEPT !.print = FALSE]
     ELSE IF ChangedSinceInstall(actual, flags) THEN keep
     ELSE IF superseded # NULL THEN keep
     ELSE IF preceding = NULL
     THEN [keep EXCEPT !.ok = FALSE, !.abort = TRUE, !.print = FALSE]
     ELSE [ok |-> r.ok, tree |-> r.tree, state |-> r.state, abort |-> FALSE,
           print |-> TRUE,
           remove |-> IF r.ok /\ RemovePreceding(preceding.info)
                      THEN {preceding.serial} ELSE {}]

(***************************************************************************)
(* Depot::verify_file.  The record's path is handed to FileFactory as it   *)
(* is stored, prefix-stripped with its leading slash: lstat resolves it    *)
(* from the root of the filesystem.  With the prefix "/" that is the live  *)
(* tree; with another prefix it is a tree outside the destination.         *)
(***************************************************************************)
AtRecordPath(prefix, tree, outside) == IF prefix = "/" THEN tree ELSE outside

verify_file(at, file) ==
  IF FileFactory(at, file.path) = NULL THEN "R"
  ELSE IF compare(file, FileFactory(at, file.path)) # FILE_INFO_IDENTICAL
  THEN "M"
  ELSE " "

\* Depot::verify: iterate_files(archive, verify_file); the lines printed,
\* from the record that follows position pos on.
RECURSIVE verify_from(_, _, _, _)
verify_from(fs, at, serial, pos) ==
  IF NextFile(fs, serial, pos) = NULL THEN <<>>
  ELSE <<<<verify_file(at, NextFile(fs, serial, pos)),
           NextFile(fs, serial, pos).path>>>>
       \o verify_from(fs, at, serial, NextFile(fs, serial, pos).path)

verify(fs, at, serial) == verify_from(fs, at, serial, 0)

(***************************************************************************)
(* Selectors.                                                              *)
(***************************************************************************)
IsRollback(a) == INFO_TEST(a.info, {ARCHIVE_INFO_ROLLBACK})

\* A bare name: the most recent layer with that name; 0 when there is none.
get_archive(as, name) ==
  LET rows == {a \in as : a.name = name}
  IN IF rows = {} THEN 0
     ELSE (CHOOSE a \in rows : \A b \in rows : b.serial <= a.serial).serial


(***************************************************************************)
(* Processes.                                                              *)
(***************************************************************************)
IdleCtx == [cmd |-> "none", phase |-> "none", root |-> 0, archive |-> 0,
            rollback |-> 0, pos |-> 0, res |-> 0, files_modified |-> 0,
            files_to_remove |-> {}, old |-> 0, li |-> 0]

\* Commands issued so far, and the faults injected so far.
Commands(cmds) == {i \in DOMAIN log : log[i].cmd \in cmds}
MaxCommands == 2 * MaxInstalls
NFaults == Cardinality({i \in DOMAIN log : log[i].fault})

LogEntry(cmd, r, serial) ==
  [cmd |-> cmd, root |-> r, serial |-> serial, res |-> 0, status |-> "running",
   fault |-> FALSE, at |-> "none", pre |-> live, post |-> live, out |-> <<>>]

\* The depot and the destination before the first command.
InitDepot ==
  /\ pristine \in Pristine
  /\ live = pristine
  /\ archives = {}
  /\ files = {}
  /\ seq = [archives |-> 0, files |-> 0]
  /\ expanded = <<>>
  /\ compacted = <<>>
  /\ lock = [p \in Procs |-> IF p = 1 THEN "SH" ELSE "UN"]
  /\ pc = [p \in Procs |-> "idle"]
  /\ ctx = [p \in Procs |-> IdleCtx]
  /\ log = <<>>
  /\ mods = <<>>
  /\ ncrashes = 0

\* main: without -p the prefix is "/".
Init == InitDepot /\ m_prefix = "/"

\* main with or without -p DIR.
InitPrefix == InitDepot /\ m_prefix \in Prefixes

\* The command returns res after printing the given lines: the result is
\* logged and the process is idle.
ReturnPrinting(p, res, lk, fault, lines) ==
  /\ pc' = [pc EXCEPT ![p] = "idle"]
  /\ ctx' = [ctx EXCEPT ![p] = IdleCtx]
  /\ lock' = [lock EXCEPT ![p] = lk]
  /\ log' = [log EXCEPT ![ctx[p].li].res = res,
                        ![ctx[p].li].out = @ \o lines,
                        ![ctx[p].li].status = "done",
                        ![ctx[p].li].fault = @ \/ fault,
                        ![ctx[p].li].at = IF fault THEN pc[p] ELSE @,
                        ![ctx[p].li].post = live']

Return(p, res, lk, fault) == ReturnPrinting(p, res, lk, fault, <<>>)

\* Depot::lock(operation): flock converts by releasing the held lock first.
\* The request to convert to LOCK_EX.
lock_release(p) == [lock EXCEPT ![p] = "UN"]
CanLockEx_nolock(p) == TRUE

CanLockEx(p) == \A q \in Procs \ {p} : lock[q] = "UN"

(***************************************************************************)
(* main: install <path> and upgrade <path>.                                *)
(***************************************************************************)
Install(p, r, max) ==
  /\ pc[p] = "idle" /\ lock[p] = "SH"
  /\ Cardinality(Commands({"install", "upgrade"})) < max
  /\ log' = Append(log, LogEntry("install", r, 0))
  /\ ctx' = [ctx EXCEPT ![p] = [IdleCtx EXCEPT !.cmd = "install",
                                  !.phase = "install", !.root = r,
                                  !.li = Len(log) + 1]]
  /\ pc' = [pc EXCEPT ![p] = "lock_ex"]
  /\ lock' = lock_release(p)
  /\ UNCHANGED <<live, archives, files, seq, expanded, compacted, pristine,
                 m_prefix, mods, ncrashes>>

\* One argument of upgrade.  res is main's variable as the arguments before
\* this one left it: it is set when no layer has the name and is never
\* reset, and install and uninstall run only while it is 0.
UpgradeArg(p, r, res, max) ==
  /\ pc[p] = "idle" /\ lock[p] = "SH"
  /\ Cardinality(Commands({"install", "upgrade"})) < max
  /\ IF get_archive(archives, Roots[r].name) = 0
     THEN \* "unable to find a matching root to upgrade": res = 5
          /\ log' = Append(log, [LogEntry("upgrade", r, 0) EXCEPT
                                   !.res = 5, !.status = "done"])
          /\ UNCHANGED <<ctx, pc, lock>>
     ELSE IF res # 0
     THEN /\ log' = Append(log, [LogEntry("upgrade", r, 0) EXCEPT
                                   !.res = res, !.status = "done"])
          /\ UNCHANGED <<ctx, pc, lock>>
     ELSE /\ log' = Append(log, LogEntry("upgrade", r, 0))
          /\ ctx' = [ctx EXCEPT ![p] = [IdleCtx EXCEPT !.cmd = "upgrade",
                               !.phase = "install", !.root = r,
                               !.old = get_archive(archives, Roots[r].name),
                               !.li = Len(log) + 1]]
          /\ pc' = [pc EXCEPT ![p] = "lock_ex"]
          /\ lock' = lock_release(p)
  /\ UNCHANGED <<live, archives, files, seq, expanded, compacted, pristine,
                 m_prefix, mods, ncrashes>>

\* The first argument of an invocation: res is 0.
Upgrade(p, r, max) == UpgradeArg(p, r, 0, max)

\* A later argument of the same invocation: res is what the argument before
\* it left.
UpgradeNext(p, r, max) ==
  /\ log # <<>>
  /\ log[Len(log)].cmd = "upgrade" /\ log[Len(log)].status = "done"
  /\ UpgradeArg(p, r, log[Len(log)].res, max)

(***************************************************************************)
(* main: uninstall <archive>, by serial.  The process holds the shared     *)
(* lock of Depot::initialize when it looks the layer up.                   *)
(***************************************************************************)
Uninstall_any(p, serial, max) ==
  /\ pc[p] = "idle" /\ lock[p] = "SH"
  /\ Len(log) < max
  /\ \E a \in archive(archives, serial) :
       /\ log' = Append(log, LogEntry("uninstall", 0, serial))
       /\ ctx' = [ctx EXCEPT ![p] = [IdleCtx EXCEPT !.cmd = "uninstall",
                             !.phase = "uninstall", !.archive = serial,
                             !.li = Len(log) + 1]]
       /\ pc' = [pc EXCEPT ![p] = "lock_ex"]
       /\ lock' = lock_release(p)
  /\ UNCHANGED <<live, archives, files, seq, expanded, compacted, pristine,
                 m_prefix, mods, ncrashes>>

Uninstall(p, serial, max) ==
  /\ pc[p] = "idle" /\ lock[p] = "SH"
  /\ Len(log) < max
  /\ IF archive(archives, serial) = {}
     THEN \* "Archive not found: <serial>": the command fails.
          /\ log' = Append(log, [LogEntry("uninstall", 0, serial) EXCEPT
                                   !.res = 1, !.status = "done"])
          /\ UNCHANGED <<ctx, pc, lock>>
     ELSE \E a \in archive(archives, serial) :
       IF IsRollback(a)
       THEN \* "cannot uninstall a rollback archive."
            /\ log' = Append(log, [LogEntry("uninstall", 0, serial) EXCEPT
                                     !.res = -1, !.status = "done"])
            /\ UNCHANGED <<ctx, pc, lock>>
       ELSE /\ log' = Append(log, LogEntry("uninstall", 0, serial))
            /\ ctx' = [ctx EXCEPT ![p] = [IdleCtx EXCEPT !.cmd = "uninstall",
                                  !.phase = "uninstall", !.archive = serial,
                                  !.li = Len(log) + 1]]
            /\ pc' = [pc EXCEPT ![p] = "lock_ex"]
            /\ lock' = lock_release(p)
  /\ UNCHANGED <<live, archives, files, seq, expanded, compacted, pristine,
                 m_prefix, mods, ncrashes>>

\* lock(LOCK_EX) in install and uninstall: granted once no other process
\* holds the lock, or failing (ok = FALSE); on failure the command returns.
LockEx_ignored(p, ok) ==
  /\ pc[p] = "lock_ex"
  /\ IF ok
     THEN /\ CanLockEx(p)
          /\ lock' = [lock EXCEPT ![p] = "EX"]
          /\ pc' = [pc EXCEPT ![p] = IF ctx[p].phase = "install"
                                     THEN "begin" ELSE "u_begin"]
          /\ UNCHANGED <<ctx, log>>
     ELSE /\ NFaults = 0
          /\ lock' = lock
          /\ pc' = [pc EXCEPT ![p] = IF ctx[p].phase = "install"
                                     THEN "begin" ELSE "u_begin"]
          /\ log' = [log EXCEPT ![ctx[p].li].fault = TRUE,
                                ![ctx[p].li].at = pc[p]]
          /\ UNCHANGED ctx
  /\ UNCHANGED <<live, archives, files, seq, expanded, compacted, pristine,
                 m_prefix, mods, ncrashes>>

LockEx(p, ok) ==
  /\ pc[p] = "lock_ex"
  /\ IF ok
     THEN /\ CanLockEx(p)
          /\ lock' = [lock EXCEPT ![p] = "EX"]
          /\ pc' = [pc EXCEPT ![p] = IF ctx[p].phase = "install"
                                     THEN "begin" ELSE "u_begin"]
          /\ UNCHANGED <<ctx, log>>
     ELSE /\ NFaults = 0
          /\ UNCHANGED live
          /\ Return(p, -1, "UN", TRUE)
  /\ UNCHANGED <<live, archives, files, seq, expanded, compacted, pristine,
                 m_prefix, mods, ncrashes>>

(***************************************************************************)
(* Depot::install.                                                         *)
(***************************************************************************)
NewArchive(serial, name, info) ==
  [serial |-> serial, name |-> name, info |-> info, active |-> "NULL"]

\* Depot::remove(Archive*), on the rows given.
remove_files_upto(fs, serial) == {f \in fs : f.archive > serial}

remove_files(fs, serial) == {f \in fs : f.archive # serial}
remove_archive(as, serial) == {a \in as : a.serial # serial}

\* The highest serial among the rows given (0 when there is none).
MaxSerial(as) ==
  IF as = {} THEN 0
  ELSE (CHOOSE a \in as : \A b \in as : b.serial <= a.serial).serial

NextSerial_rowid(as, sq) == MaxSerial(as) + 1

\* Depot::insert(Archive*): serial is INTEGER PRIMARY KEY AUTOINCREMENT, one
\* more than the highest serial ever committed.
NextSerial(as, sq) == sq.archives + 1

\* Backing directories are named by uuid.  A directory left by a killed
\* process whose rows were never committed stays next to the new directory
\* of the layer that gets the same serial: it is kept under a key below 0.
StaleKey(exp) == 0 - (Cardinality({k \in DOMAIN exp : k < 0}) + 1)
create_directory(exp, serial) ==
  Put(IF serial \in DOMAIN exp
      THEN Put(Drop(exp, {serial}), StaleKey(exp), exp[serial])
      ELSE exp,
      serial, EmptyTree)

\* BEGIN; insert(rollback); insert(archive): the rows of the open
\* transaction, visible to nobody before COMMIT; then
\* archive->create_directory.
Begin(p) ==
  /\ pc[p] = "begin"
  /\ ctx' = [ctx EXCEPT ![p].rollback = NextSerial(archives, seq),
                        ![p].archive = NextSerial(archives, seq) + 1]
  /\ expanded' = create_directory(expanded, NextSerial(archives, seq) + 1)
  /\ pc' = [pc EXCEPT ![p] = "create_rollback"]
  /\ UNCHANGED <<live, archives, files, seq, compacted, lock, pristine,
                 m_prefix, log, mods, ncrashes>>

\* rollback->create_directory.
CreateRollback(p) ==
  /\ pc[p] = "create_rollback"
  /\ expanded' = create_directory(expanded, ctx[p].rollback)
  /\ pc' = [pc EXCEPT ![p] = "extract"]
  /\ UNCHANGED <<live, archives, files, seq, compacted, lock, ctx, pristine,
                 m_prefix, log, mods, ncrashes>>

\* archive->extract(archive_path).  ok = FALSE: the archive cannot be
\* extracted; the transaction is rolled back and every later step but the
\* removal of the directories is skipped.
Extract(p, ok) ==
  /\ pc[p] = "extract"
  /\ IF ok
     THEN /\ expanded' = [expanded EXCEPT ![ctx[p].archive] =
                                            Roots[ctx[p].root].tree]
          /\ pc' = [pc EXCEPT ![p] = "analyze"]
          /\ UNCHANGED <<ctx, log>>
     ELSE /\ NFaults = 0
          /\ pc' = [pc EXCEPT ![p] = "cleanup"]
          /\ ctx' = [ctx EXCEPT ![p].res = -1]
          /\ log' = [log EXCEPT ![ctx[p].li].fault = TRUE,
                                ![ctx[p].li].at = "extract"]
          /\ UNCHANGED expanded
  /\ UNCHANGED <<live, archives, files, seq, compacted, lock, pristine,
                 m_prefix, mods, ncrashes>>

\* The rows of the open transaction once analyze_stage has run.
Staged(p) ==
  analyze_stage(files, seq.files, live, ctx[p].root, ctx[p].archive,
                ctx[p].rollback)

\* The rows of the rollback layer whose bytes are to be saved.
RollbackData(fs, rser) ==
  {f \in FilesOf(fs, rser) : INFO_TEST(f.info, {FILE_INFO_ROLLBACK_DATA})}

\* mkdir_p(dirname(path)) inside a backing directory, for each row given.
mkdir_p(tree, rows) ==
  [q \in Paths |->
     IF tree[q].kind = "none" /\ \E f \in rows : q \in Ancestors(f.path)
     THEN Dir(0) ELSE tree[q]]

\* analyze_stage: the status lines are printed and the directories of the
\* rollback backing store are made; the rows stay in the open transaction.
\* failed: the rows whose mkdir_p fails; the error is printed and
\* analyze_stage goes on, res is overwritten by the result of the insert
\* that follows, and nothing of it reaches Depot::install.
AnalyzeStage(p, failed) ==
  /\ pc[p] = "analyze"
  /\ failed \subseteq RollbackData(Staged(p).files, ctx[p].rollback)
  /\ failed = {} \/ NFaults = 0
  /\ expanded' = [expanded EXCEPT ![ctx[p].rollback] =
                    mkdir_p(@, RollbackData(Staged(p).files, ctx[p].rollback)
                                 \ failed)]
  /\ pc' = [pc EXCEPT ![p] = "commit"]
  /\ log' = [log EXCEPT ![ctx[p].li].out = @ \o Staged(p).out,
                        ![ctx[p].li].fault = @ \/ failed # {},
                        ![ctx[p].li].at = IF failed = {} THEN @ ELSE "mkdir_p"]
  /\ UNCHANGED <<live, archives, files, seq, compacted, lock, ctx, pristine,
                 m_prefix, mods, ncrashes>>

Analyze(p) == AnalyzeStage(p, {})

\* The same with mkdir_p failing for some of the rows.
AnalyzeMkdirFails(p) ==
  /\ pc[p] = "analyze"
  /\ \E failed \in SUBSET RollbackData(Staged(p).files, ctx[p].rollback) :
        failed # {} /\ AnalyzeStage(p, failed)

\* The rows insert(rollback) and insert(archive) add to table archives.
Inserted(p) ==
  {NewArchive(ctx[p].rollback, "<Rollback>", {ARCHIVE_INFO_ROLLBACK}),
   NewArchive(ctx[p].archive, Roots[ctx[p].root].name, {})}

\* remove(rollback) when it got no file; COMMIT: the rows of both layers
\* and of their files are in the catalog, the active flags not set.
Commit(p) ==
  /\ pc[p] = "commit"
  /\ archives' = IF Staged(p).rollback_files = 0
                 THEN remove_archive(archives \cup Inserted(p), ctx[p].rollback)
                 ELSE archives \cup Inserted(p)
  /\ files' = IF Staged(p).rollback_files = 0
              THEN remove_files(Staged(p).files, ctx[p].rollback)
              ELSE Staged(p).files
  /\ seq' = [archives |-> ctx[p].archive, files |-> Staged(p).fseq]
  /\ pc' = [pc EXCEPT ![p] = "compact"]
  /\ log' = [log EXCEPT ![ctx[p].li].serial = ctx[p].archive]
  /\ UNCHANGED <<live, expanded, compacted, lock, ctx, pristine, m_prefix,
                 mods, ncrashes>>

\* archive->compact_directory: the copy of the backing directory.
\* ok = FALSE: it fails, and every later step but the removal of the
\* directories is skipped; the rows stay as the COMMIT left them.
Compact(p, ok) ==
  /\ pc[p] = "compact"
  /\ IF ok
     THEN /\ compacted' = Put(compacted, ctx[p].archive,
                              expanded[ctx[p].archive])
          /\ pc' = [pc EXCEPT ![p] = "backup"]
          /\ ctx' = [ctx EXCEPT ![p].pos = 0]
          /\ UNCHANGED log
     ELSE /\ NFaults = 0
          /\ pc' = [pc EXCEPT ![p] = "cleanup"]
          /\ ctx' = [ctx EXCEPT ![p].res = -1]
          /\ log' = [log EXCEPT ![ctx[p].li].fault = TRUE,
                                ![ctx[p].li].at = "compact"]
          /\ UNCHANGED compacted
  /\ UNCHANGED <<live, archives, files, seq, expanded, lock, pristine,
                 m_prefix, mods, ncrashes>>

\* copyfile(path, dstpath) has a directory to copy into: the backing
\* directory itself, or a directory mkdir_p made in it.
HasDirectory(store, path) == ParentIsDir(store, path)

\* backup_file copies the rows flagged ROLLBACK_DATA.
Copies(f) == INFO_TEST(f.info, {FILE_INFO_ROLLBACK_DATA})

\* copyfile(path, dstpath) returns 0: no fault, the source is there, and so
\* is the directory to copy into.
CopyGood(p, ok, f) ==
  /\ ok
  /\ live[f.path].kind # "none"
  /\ HasDirectory(expanded[ctx[p].rollback], f.path)

\* iterate_files(rollback, backup_file), one row; after the last row the
\* rollback directory is compacted when a file was copied into it.
\* ok = FALSE: copyfile fails, or the compaction does; copyfile fails too
\* when the directory to copy into is not there.
Backup_goes_on(p, ok) ==
  LET rser == ctx[p].rollback
      f == NextFile(files, rser, ctx[p].pos)
  IN /\ pc[p] = "backup"
     /\ IF f = NULL
        THEN /\ ok
             /\ compacted' = IF ctx[p].files_modified > 0
                             THEN Put(compacted, rser, expanded[rser])
                             ELSE compacted
             /\ pc' = [pc EXCEPT ![p] = "install"]
             /\ ctx' = [ctx EXCEPT ![p].pos = 0]
             /\ UNCHANGED <<expanded, log>>
        ELSE /\ ok \/ NFaults = 0
             /\ ok \/ Copies(f)
             /\ expanded' = IF Copies(f) /\ CopyGood(p, ok, f)
                            THEN [expanded EXCEPT ![rser][f.path] = live[f.path]]
                            ELSE expanded
             /\ ctx' = [ctx EXCEPT ![p].pos = f.path,
                                   ![p].files_modified =
                                      IF Copies(f) THEN @ + 1 ELSE @]
             /\ log' = [log EXCEPT ![ctx[p].li].fault = @ \/ ~ok]
             /\ UNCHANGED <<pc, compacted>>
     /\ UNCHANGED <<live, archives, files, seq, lock, pristine, m_prefix, mods,
                    ncrashes>>

Backup(p, ok) ==
  LET rser == ctx[p].rollback
      f == NextFile(files, rser, ctx[p].pos)
  IN /\ pc[p] = "backup"
     /\ IF f = NULL
        THEN IF ok
             THEN /\ compacted' = IF ctx[p].files_modified > 0
                                  THEN Put(compacted, rser, expanded[rser])
                                  ELSE compacted
                  /\ pc' = [pc EXCEPT ![p] = "install"]
                  /\ ctx' = [ctx EXCEPT ![p].pos = 0]
                  /\ UNCHANGED <<expanded, log>>
             ELSE /\ ctx[p].files_modified > 0
                  /\ NFaults = 0
                  /\ pc' = [pc EXCEPT ![p] = "cleanup"]
                  /\ ctx' = [ctx EXCEPT ![p].res = -1]
                  /\ log' = [log EXCEPT ![ctx[p].li].fault = TRUE,
                                        ![ctx[p].li].at = "compact_rollback"]
                  /\ UNCHANGED <<expanded, compacted>>
        ELSE IF ~Copies(f)
        THEN /\ ok
             /\ ctx' = [ctx EXCEPT ![p].pos = f.path]
             /\ UNCHANGED <<pc, expanded, compacted, log>>
        ELSE /\ ok \/ NFaults = 0
             /\ IF CopyGood(p, ok, f)
                THEN /\ expanded' = [expanded EXCEPT ![rser][f.path] =
                                                       live[f.path]]
                     /\ ctx' = [ctx EXCEPT ![p].pos = f.path,
                                           ![p].files_modified = @ + 1]
                     /\ UNCHANGED <<pc, log>>
                ELSE /\ ctx' = [ctx EXCEPT ![p].res = -1,
                                           ![p].files_modified = @ + 1]
                     /\ pc' = [pc EXCEPT ![p] = "cleanup"]
                     /\ log' = [log EXCEPT ![ctx[p].li].fault = @ \/ ~ok]
                     /\ UNCHANGED expanded
             /\ UNCHANGED compacted
     /\ UNCHANGED <<live, archives, files, seq, lock, pristine, m_prefix, mods,
                    ncrashes>>

\* Depot::install_file on one row.
install_file(tree, store, file) ==
  IF INFO_TEST(file.info, {FILE_INFO_INSTALL_DATA})
  THEN FileInstall(tree, store, file)
  ELSE FileInstallInfo(tree, file)

\* iterate_files(archive, install_file), one row.  ok = FALSE: the copy fails.
InstallFile(p, ok) ==
  LET aser == ctx[p].archive
      f == NextFile(files, aser, ctx[p].pos)
      r == install_file(live, expanded[aser], f)
  IN /\ pc[p] = "install"
     /\ IF f = NULL
        THEN /\ ok
             /\ pc' = [pc EXCEPT ![p] = "activate"]
             /\ UNCHANGED <<live, ctx, log>>
        ELSE /\ ok \/ NFaults = 0
             /\ IF ok /\ r.ok
                THEN /\ live' = r.tree
                     /\ ctx' = [ctx EXCEPT ![p].pos = f.path]
                     /\ UNCHANGED <<pc, log>>
                ELSE /\ ctx' = [ctx EXCEPT ![p].res = -1]
                     /\ pc' = [pc EXCEPT ![p] = "cleanup"]
                     /\ log' = [log EXCEPT ![ctx[p].li].fault = @ \/ ~ok]
                     /\ UNCHANGED live
     /\ UNCHANGED <<archives, files, seq, expanded, compacted, lock, pristine,
                    m_prefix, mods, ncrashes>>

\* "UPDATE archives SET active=1 WHERE serial=..." for both layers.
activate_archive(as, rser, aser) ==
  {IF a.serial = aser THEN [a EXCEPT !.active = "1"] ELSE a : a \in as}

activate(as, rser, aser) ==
  {IF a.serial \in {rser, aser} THEN [a EXCEPT !.active = "1"] ELSE a :
     a \in as}

Activate(p) ==
  /\ pc[p] = "activate"
  /\ archives' = activate(archives, ctx[p].rollback, ctx[p].archive)
  /\ pc' = [pc EXCEPT ![p] = "cleanup"]
  /\ UNCHANGED <<live, files, seq, expanded, compacted, lock, ctx, pristine,
                 m_prefix, log, mods, ncrashes>>

\* remove_directory(archive_path).
Cleanup(p) ==
  /\ pc[p] = "cleanup"
  /\ expanded' = remove_directory(expanded, ctx[p].archive)
  /\ pc' = [pc EXCEPT ![p] = "cleanup_rollback"]
  /\ UNCHANGED <<live, archives, files, seq, compacted, lock, ctx, pristine,
                 m_prefix, log, mods, ncrashes>>

\* remove_directory(rollback_path), lock(LOCK_SH), return res; upgrade goes
\* on to uninstall the old archive when the install succeeded.
CleanupRollback(p) ==
  /\ pc[p] = "cleanup_rollback"
  /\ expanded' = remove_directory(expanded, ctx[p].rollback)
  /\ UNCHANGED live
  /\ IF ctx[p].cmd = "upgrade" /\ ctx[p].res = 0
     THEN /\ ctx' = [ctx EXCEPT ![p] = [IdleCtx EXCEPT !.cmd = "upgrade",
                            !.phase = "uninstall", !.root = ctx[p].root,
                            !.archive = ctx[p].old, !.li = ctx[p].li]]
          /\ pc' = [pc EXCEPT ![p] = "lock_ex"]
          /\ lock' = lock_release(p)
          /\ UNCHANGED log
     ELSE Return(p, ctx[p].res, "SH", FALSE)
  /\ UNCHANGED <<archives, files, seq, compacted, pristine, m_prefix, mods,
                 ncrashes>>

(***************************************************************************)
(* Depot::uninstall.                                                       *)
(***************************************************************************)
deactivate_none(as, serial) == as

\* "UPDATE archives SET active=0 WHERE serial=..."
deactivate(as, serial) ==
  {IF a.serial = serial THEN [a EXCEPT !.active = "0"] ELSE a : a \in as}

\* Depot::prune_directories, one turn of its loop at position at: one
\* remove_directory call on a directory of Archives/, in the order of the
\* uuid names (any order of the layers); with none left the loop ends and the
\* command goes on at position next.
prune_directories(p, at, next) ==
  /\ pc[p] = at
  /\ IF DOMAIN expanded = {}
     THEN /\ pc' = [pc EXCEPT ![p] = next]
          /\ UNCHANGED expanded
     ELSE /\ \E k \in DOMAIN expanded :
               expanded' = remove_directory(expanded, k)
          /\ UNCHANGED pc
  /\ UNCHANGED <<live, archives, files, seq, compacted, lock, ctx, pristine,
                 m_prefix, log, mods, ncrashes>>

\* prune_directories before the first transaction.
UBegin(p) == prune_directories(p, "u_begin", "u_deactivate")

\* The transaction that clears the active flag.
UDeactivate(p) ==
  /\ pc[p] = "u_deactivate"
  /\ archives' = deactivate(archives, ctx[p].archive)
  /\ pc' = [pc EXCEPT ![p] = "u_files"]
  /\ ctx' = [ctx EXCEPT ![p].pos = 0]
  /\ UNCHANGED <<live, files, seq, expanded, compacted, lock, pristine,
                 m_prefix, log, mods, ncrashes>>

\* iterate_files(archive, uninstall_file), one row.  A failed assert aborts
\* the process; a failed restore ends the command with the lock downgraded.
UFile(p) ==
  LET f == NextFile(files, ctx[p].archive, ctx[p].pos)
      r == uninstall_file(files, live, expanded, compacted, f)
  IN /\ pc[p] = "u_files"
     /\ IF f = NULL
        THEN /\ pc' = [pc EXCEPT ![p] = "u_delete"]
             /\ UNCHANGED <<live, ctx, lock, log>>
        ELSE IF r.abort
        THEN /\ UNCHANGED live
             /\ pc' = [pc EXCEPT ![p] = "idle"]
             /\ ctx' = [ctx EXCEPT ![p] = IdleCtx]
             /\ lock' = [lock EXCEPT ![p] = "SH"]
             /\ log' = [log EXCEPT ![ctx[p].li].status = "aborted",
                                   ![ctx[p].li].res = -1]
        ELSE IF r.ok
        THEN /\ live' = r.tree
             /\ ctx' = [ctx EXCEPT ![p].pos = f.path,
                                   ![p].files_to_remove = @ \cup r.remove]
             /\ log' = [log EXCEPT ![ctx[p].li].out =
                                     IF r.print
                                     THEN Append(@, <<r.state, f.path>>)
                                     ELSE @]
             /\ UNCHANGED <<pc, lock>>
        ELSE /\ UNCHANGED live
             /\ ReturnPrinting(p, -1, "SH", FALSE, <<<<r.state, f.path>>>>)
     /\ UNCHANGED <<archives, files, seq, expanded, compacted, pristine,
                    m_prefix, mods, ncrashes>>

\* The transaction deleting the rows in files_to_remove.
UDelete(p) ==
  /\ pc[p] = "u_delete"
  /\ files' = {f \in files : f.serial \notin ctx[p].files_to_remove}
  /\ pc' = [pc EXCEPT ![p] = "u_remove"]
  /\ UNCHANGED <<live, archives, seq, expanded, compacted, lock, ctx, pristine,
                 m_prefix, log, mods, ncrashes>>

prune_archives_none(as, fs) == as

\* "DELETE FROM archives WHERE serial NOT IN (SELECT DISTINCT archive ...)"
prune_archives_rollbacks(as, fs) ==
  {a \in as : FilesOf(fs, a.serial) # {} /\ ~IsRollback(a)}

prune_archives(as, fs) == {a \in as : FilesOf(fs, a.serial) # {}}

\* The transaction removing the archive and its file rows.
URemove(p) ==
  /\ pc[p] = "u_remove"
  /\ files' = remove_files(files, ctx[p].archive)
  /\ archives' = remove_archive(archives, ctx[p].archive)
  /\ pc' = [pc EXCEPT ![p] = "u_prune_directories"]
  /\ UNCHANGED <<live, seq, expanded, compacted, lock, ctx, pristine, m_prefix,
                 log, mods, ncrashes>>

\* prune_directories after the last transaction.
UPruneDirectories(p) ==
  prune_directories(p, "u_prune_directories", "u_prune_archives")

\* prune_archives, a statement of its own; lock(LOCK_SH); return.
UPruneArchives(p) ==
  /\ pc[p] = "u_prune_archives"
  /\ archives' = prune_archives(archives, files)
  /\ UNCHANGED live
  /\ Return(p, 0, "SH", FALSE)
  /\ UNCHANGED <<files, seq, expanded, compacted, pristine, m_prefix, mods,
                 ncrashes>>

(***************************************************************************)
(* main: the loop over the arguments of one invocation.  res is assigned   *)
(* the result of the call for each argument in turn, and the process ends  *)
(* with exit(res): the low eight bits of what the last call returned.      *)
(***************************************************************************)
\* Depot::install(path) around Depot::install(archive): 0, or 1 for a
\* failure.
install(res) == IF res = 0 THEN 0 ELSE 1

RECURSIVE main_res(_, _, _)
main_res(results, i, res) ==
  IF i > Len(results) THEN res
  ELSE main_res(results, i + 1, install(results[i]))

exit_status(res) == res % 256

(***************************************************************************)
(* main: verify <archive>, by serial.  outside: the tree found at the      *)
(* record paths when they are resolved from "/" and the prefix is not "/". *)
(***************************************************************************)
Verify(p, serial, outside) ==
  /\ pc[p] = "idle" /\ lock[p] = "SH"
  /\ Cardinality(Commands({"verify"})) < MaxVerifies
  /\ log' = Append(log, [cmd |-> "verify", root |-> 0, serial |-> serial,
                         res |-> 0, status |-> "done", fault |-> FALSE,
                         at |-> "none", pre |-> live, post |-> live,
                         out |-> verify(files,
                                        AtRecordPath(m_prefix, live, outside),
                                        serial)])
  /\ UNCHANGED <<live, archives, files, seq, expanded, compacted, lock, pc,
                 ctx, pristine, m_prefix, mods, ncrashes>>

(***************************************************************************)
(* The environment.                                                        *)
(***************************************************************************)
AllIdle == \A p \in Procs : pc[p] = "idle"

\* The user rewrites a live regular file between two commands.
UserModify(path, d) ==
  /\ AllIdle
  /\ Len(mods) < MaxMods
  /\ live[path].kind = "reg"
  /\ live[path].digest # d
  /\ live' = [live EXCEPT ![path].digest = d]
  /\ mods' = Append(mods, [path |-> path, digest |-> d, old |-> live[path],
                         at |-> Len(log)])
  /\ UNCHANGED <<archives, files, seq, expanded, compacted, lock, pc, ctx,
                 pristine, m_prefix, log, ncrashes>>

\* The user deletes a live file or symbolic link between two commands.
UserDelete(path) ==
  /\ AllIdle
  /\ Len(mods) < MaxMods
  /\ live[path].kind \in {"reg", "sym"}
  /\ live' = [live EXCEPT ![path] = None]
  /\ mods' = Append(mods, [path |-> path, digest |-> 0, old |-> live[path],
                         at |-> Len(log)])
  /\ UNCHANGED <<archives, files, seq, expanded, compacted, lock, pc, ctx,
                 pristine, m_prefix, log, ncrashes>>

\* The process is killed inside a command.  The rows of an open transaction
\* go with it (they enter the catalog in the step of the COMMIT); what was
\* written to the backing directories and to the live tree stays.  The
\* kernel releases the lock, and the next run starts with Depot::initialize
\* taking the shared lock.
Crash(p) ==
  /\ pc[p] \notin {"idle", "lock_ex"}
  /\ ncrashes < MaxCrashes
  /\ ncrashes' = ncrashes + 1
  /\ pc' = [pc EXCEPT ![p] = "idle"]
  /\ ctx' = [ctx EXCEPT ![p] = IdleCtx]
  /\ lock' = [lock EXCEPT ![p] = "SH"]
  /\ log' = [log EXCEPT ![ctx[p].li].status = "killed",
                        ![ctx[p].li].at = pc[p],
                        ![ctx[p].li].post = live]
  /\ UNCHANGED <<live, archives, files, seq, expanded, compacted, pristine,
                 m_prefix, mods>>

\* A process ends (its lock is released) and a new one starts
\* (Depot::initialize: lock(LOCK_SH), which waits for an exclusive holder).
Exit(p) ==
  /\ pc[p] = "idle" /\ lock[p] # "UN"
  /\ lock' = [lock EXCEPT ![p] = "UN"]
  /\ UNCHANGED <<live, archives, files, seq, expanded, compacted, pc, ctx,
                 pristine, m_prefix, log, mods, ncrashes>>

Start(p) ==
  /\ pc[p] = "idle" /\ lock[p] = "UN"
  /\ \A q \in Procs \ {p} : lock[q] # "EX"
  /\ lock' = [lock EXCEPT ![p] = "SH"]
  /\ UNCHANGED <<live, archives, files, seq, expanded, compacted, pc, ctx,
                 pristine, m_prefix, log, mods, ncrashes>>

(***************************************************************************)
(* Specifications.                                                         *)
(***************************************************************************)
Step(p, ok) ==
  \/ LockEx(p, ok)
  \/ Extract(p, ok)
  \/ Backup(p, ok)
  \/ InstallFile(p, ok)
  \/ (ok /\ Begin(p))
  \/ (ok /\ CreateRollback(p))
  \/ (ok /\ Analyze(p))
  \/ (ok /\ Commit(p))
  \/ Compact(p, ok)
  \/ (ok /\ Activate(p))
  \/ (ok /\ Cleanup(p))
  \/ (ok /\ CleanupRollback(p))
  \/ (ok /\ UBegin(p))
  \/ (ok /\ UDeactivate(p))
  \/ (ok /\ UFile(p))
  \/ (ok /\ UDelete(p))
  \/ (ok /\ URemove(p))
  \/ (ok /\ UPruneDirectories(p))
  \/ (ok /\ UPruneArchives(p))

InstallCmd(p, roots, max) == \E r \in roots : Install(p, r, max)
UpgradeCmd(p, roots, max) == \E r \in roots : Upgrade(p, r, max)
UpgradeNextCmd(p, roots, max) == \E r \in roots : UpgradeNext(p, r, max)
UninstallCmd(p, max) == \E a \in archives : Uninstall(p, a.serial, max)
\* uninstall <serial> for any serial handed out so far: the layer may be
\* gone by the time the process has the shared lock and looks it up.
UninstallArg(p, max) ==
  \E serial \in 1..seq.archives : Uninstall(p, serial, max)
UserCmd == \E path \in Paths, d \in Data : UserModify(path, d)

\* One process, no fault: install and uninstall commands.
Next ==
  \/ InstallCmd(1, {1, 2, 3}, MaxInstalls)
  \/ UninstallCmd(1, MaxCommands)
  \/ Step(1, TRUE)

Spec == Init /\ [][Next]_vars

\* One process, no fault, and a user who modifies live files between
\* commands.
NextUser ==
  \/ InstallCmd(1, {1, 2}, MaxInstalls)
  \/ UninstallCmd(1, MaxCommands)
  \/ Step(1, TRUE)
  \/ UserCmd

SpecUser == Init /\ [][NextUser]_vars

\* One process, no fault: install, upgrade and uninstall commands.
NextUpgrade ==
  \/ InstallCmd(1, {1, 2, 4}, MaxInstalls)
  \/ UpgradeCmd(1, {1, 2, 4}, MaxInstalls)
  \/ UpgradeNextCmd(1, {1, 2, 4}, MaxInstalls)
  \/ UninstallCmd(1, MaxCommands)
  \/ Step(1, TRUE)

SpecUpgrade == Init /\ [][NextUpgrade]_vars

\* One process that may be killed inside a command, MaxCrashes times in a
\* behaviour: the second kill can hit a command that meets what the first
\* left behind.
NextCrash ==
  \/ InstallCmd(1, {1, 2, 3}, MaxInstalls - 1)
  \/ UninstallCmd(1, MaxInstalls + 1)
  \/ Step(1, TRUE)
  \/ Crash(1)

SpecCrash == Init /\ [][NextCrash]_vars

\* One process, no fault: installs and uninstalls of an archive that adds a
\* chain of new directories, and of archives whose file differs from a file
\* of the destination in mode only, or in nothing.
NextChain ==
  \/ InstallCmd(1, {1, 5, 6, 7}, MaxInstalls - 1)
  \/ UninstallCmd(1, MaxCommands)
  \/ Step(1, TRUE)

SpecChain == Init /\ [][NextChain]_vars

UserDeleteCmd == \E path \in Paths : UserDelete(path)

\* One process, no fault, and a user who deletes live files between
\* commands.
NextDelete ==
  \/ InstallCmd(1, {1, 2}, MaxInstalls - 1)
  \/ UninstallCmd(1, MaxCommands)
  \/ Step(1, TRUE)
  \/ UserDeleteCmd

SpecDelete == Init /\ [][NextDelete]_vars

VerifyCmd(p) ==
  \E a \in archives, outside \in Pristine : Verify(p, a.serial, outside)

\* One process, no fault, any prefix: install, uninstall and verify commands.
NextVerify ==
  \/ InstallCmd(1, {1, 2, 3}, MaxInstalls - 1)
  \/ UninstallCmd(1, MaxCommands)
  \/ Step(1, TRUE)
  \/ VerifyCmd(1)

SpecVerify == InitPrefix /\ [][NextVerify]_vars

\* Processes that come and go, each running commands on the same depot
\* once Depot::initialize gave it the shared lock (Start);
\* one of flock, the extraction, mkdir_p or a copy may fail.
NextLock ==
  \E p \in Procs :
     \/ InstallCmd(p, {1, 3}, MaxInstalls - 1)
     \/ UninstallArg(p, MaxInstalls)
     \/ \E ok \in BOOLEAN : Step(p, ok)
     \/ AnalyzeMkdirFails(p)
     \/ Exit(p)
     \/ Start(p)

SpecLock == Init /\ [][NextLock]_vars

(***************************************************************************)
(* Properties.                                                             *)
(***************************************************************************)
Done(i, cmd) ==
  /\ i \in DOMAIN log
  /\ log[i].cmd = cmd /\ log[i].status = "done" /\ log[i].res = 0

\* The behaviour so far is install(A); uninstall(A), both successful, on a
\* destination on which nothing was installed before.
InstalledThenUninstalled ==
  /\ Len(log) = 2
  /\ Done(1, "install") /\ Done(2, "uninstall")
  /\ log[2].serial = log[1].serial
  /\ mods = <<>>

\* C1: round trip: after a successful install(A) and a successful
\* uninstall(A) on a pristine destination every path has the kind,
\* contents, mode, uid and gid it had before, and no path is new.
C1_RoundTrip == InstalledThenUninstalled => live = pristine

\* The behaviour so far is n successful installs followed by successful
\* uninstalls of those same n layers, in some order, with no user change.
InstalledSerials == {log[i].serial : i \in {j \in DOMAIN log : log[j].cmd = "install"}}
UninstalledSerials == {log[i].serial : i \in {j \in DOMAIN log : log[j].cmd = "uninstall"}}
StackUninstalled ==
  /\ Len(log) >= 2 /\ Len(log) % 2 = 0
  /\ \A i \in DOMAIN log :
       IF 2 * i <= Len(log) THEN Done(i, "install") ELSE Done(i, "uninstall")
  /\ UninstalledSerials = InstalledSerials
  /\ mods = <<>>

\* C2: stack order independence: after A1..An were installed in order on a
\* pristine destination and all n layers were uninstalled in any order, with
\* no live file modified by anyone else, the live tree equals the original.
C2_StackOrderIndependence == StackUninstalled => live = pristine

\* Modification k changed a live file that the layer installed by log[j]
\* had installed, and the layer's uninstall log[i] started on the user's
\* contents.
UserChangedLayerFile(i, j, k) ==
  /\ Done(j, "install") /\ Done(i, "uninstall")
  /\ log[i].serial = log[j].serial
  /\ j <= mods[k].at /\ mods[k].at < i
  /\ mods[k].old = Roots[log[j].root].tree[mods[k].path]
  /\ log[i].pre[mods[k].path] = [mods[k].old EXCEPT !.digest = mods[k].digest]

\* C3: user-data preservation on uninstall: when the user changed the
\* contents of a live file that A installed, uninstall(A) neither overwrites
\* nor removes it; afterwards the file still has the user's contents.
C3_UserDataPreserved ==
  \A i \in DOMAIN log, j \in DOMAIN log, k \in DOMAIN mods :
    UserChangedLayerFile(i, j, k) =>
      log[i].post[mods[k].path] = log[i].pre[mods[k].path]

C3_Witness ==
  \E i \in DOMAIN log, j \in DOMAIN log, k \in DOMAIN mods :
    /\ UserChangedLayerFile(i, j, k)
    /\ log[i].post[mods[k].path].digest = mods[k].digest
    /\ log[i].post # log[i].pre

\* The layers installed so far whose archive has an entry at path.
Touching(path) ==
  {j \in DOMAIN log : /\ log[j].cmd = "install"
                      /\ Roots[log[j].root].tree[path] # None}
UninstalledAt(j, n) ==
  \E i \in 1..n : Done(i, "uninstall") /\ log[i].serial = log[j].serial

\* Modification k is the user's last change of its path; it changed a live
\* file owned by a layer installed at the time; since then every layer that
\* touches the path has been installed and uninstalled successfully.
UserFileLayersGone(k) ==
  LET path == mods[k].path IN
  /\ AllIdle
  /\ \A m \in DOMAIN mods : m > k => mods[m].path # path
  /\ \E j \in Touching(path) :
       /\ j <= mods[k].at /\ ~UninstalledAt(j, mods[k].at)
       /\ Roots[log[j].root].tree[path] = mods[k].old
  /\ \A j \in Touching(path) : Done(j, "install") /\ UninstalledAt(j, Len(log))

\* The user's contents differ from what every layer touching the path
\* installs there.
UserContentsOwn(k) ==
  \A j \in Touching(mods[k].path) :
    Roots[log[j].root].tree[mods[k].path].digest # mods[k].digest

\* C4 as stated: user data survives a stack of installs: once every layer
\* touching the path of a user-modified, layer-owned file has been
\* uninstalled, in any order, the live file exists and holds the user's
\* contents.
C4_UserDataSurvivesStack ==
  \A k \in DOMAIN mods :
    UserFileLayersGone(k) =>
      live[mods[k].path] = [mods[k].old EXCEPT !.digest = mods[k].digest]

\* C4 as amended: the same, for user contents that differ from the contents
\* each of those layers installs at the path.
C4_UserDataSurvivesStack_Amended ==
  \A k \in DOMAIN mods :
    (UserFileLayersGone(k) /\ UserContentsOwn(k)) =>
      live[mods[k].path] = [mods[k].old EXCEPT !.digest = mods[k].digest]

C4_Witness ==
  \E k \in DOMAIN mods :
    /\ UserFileLayersGone(k) /\ UserContentsOwn(k)
    /\ Cardinality(Touching(mods[k].path)) >= 2
    /\ \E j \in Touching(mods[k].path) : j > mods[k].at
    /\ live[mods[k].path].digest = mods[k].digest

\* The positions of an install before the commit of its layers.
BeforeCommit == {"begin", "create_rollback", "extract", "analyze", "commit"}

\* log[i] is an install killed after its layers were committed and before
\* they were activated, and the next command uninstalled the layer it left.
KilledInactive(i) ==
  /\ log[i].cmd = "install" /\ log[i].status = "killed"
  /\ log[i].at \in {"compact", "backup", "install", "activate"}
Recovered(i) ==
  /\ KilledInactive(i)
  /\ Done(i + 1, "uninstall") /\ log[i + 1].serial = log[i].serial

\* C5: crash safety: when install(A) is killed, at any point, uninstalling
\* the layers it left inactive restores the live tree to its state before
\* install(A) started (a kill before the layers are committed leaves none,
\* and the tree as it was).
C5_CrashSafety ==
  \A i \in DOMAIN log :
    /\ (log[i].cmd = "install" /\ log[i].status = "killed"
          /\ log[i].at \in BeforeCommit) => log[i].post = log[i].pre
    /\ Recovered(i) => log[i + 1].post = log[i].pre

\* One of the two is a directory and the other an existing non-directory.
Incompatible(a, b) ==
  /\ a.kind # "none" /\ b.kind # "none"
  /\ (a.kind = "dir") # (b.kind = "dir")

\* The paths at which the archive of log[i] holds an entry whose kind is
\* incompatible with the live object the install found there.
Conflicts(i) ==
  {q \in Paths : Incompatible(Roots[log[i].root].tree[q], log[i].pre[q])}
RefusedInstall(i) ==
  /\ log[i].cmd = "install" /\ log[i].status = "done"
  /\ Conflicts(i) # {}

\* C6: refused install changes nothing: when the archive holds an entry
\* whose kind is incompatible with the live object at its path, install
\* returns non-zero and no path of the live tree has been created,
\* overwritten or removed.
C6_RefusedInstallChangesNothing ==
  \A i \in DOMAIN log :
    RefusedInstall(i) => (log[i].res # 0 /\ log[i].post = log[i].pre)

\* The behaviour so far is a successful install of an archive named name on
\* an empty catalog followed by one or more successful upgrades of that name.
UpgradedOnly(name) ==
  /\ Len(log) >= 2 /\ AllIdle
  /\ Done(1, "install")
  /\ \A i \in 2..Len(log) : Done(i, "upgrade")
  /\ \A i \in DOMAIN log : Roots[log[i].root].name = name
Named(name) == {a \in archives : ~IsRollback(a) /\ a.name = name}

\* C7: idempotent upgrade: from a catalog with exactly one layer named N,
\* any number of successful upgrade(N) leaves exactly one non-rollback layer
\* named N, and that layer is active.
C7_IdempotentUpgrade ==
  \A r \in RootIds :
    UpgradedOnly(Roots[r].name) =>
      /\ Cardinality(Named(Roots[r].name)) = 1
      /\ \A a \in Named(Roots[r].name) : a.active = "1"

\* The mutating section of install and uninstall: from the grant of the
\* exclusive lock to the return.
Mutating(p) == pc[p] \notin {"idle", "lock_ex"}

\* C9: mutual exclusion: no two processes are at the same time inside the
\* mutating section of install or uninstall, and a process is inside it only
\* while it holds the depot lock in exclusive mode.
C9_MutualExclusion ==
  /\ \A p \in Procs, q \in Procs : (Mutating(p) /\ Mutating(q)) => p = q
  /\ \A p \in Procs : Mutating(p) => lock[p] = "EX"

C9_Witness ==
  \E p \in Procs, q \in Procs :
    /\ pc[p] \in {"backup", "install", "u_files"} /\ lock[p] = "EX"
    /\ pc[q] = "lock_ex"

\* The install logged at i could not get the exclusive lock.
LockFailed(i) == log[i].cmd = "install" /\ log[i].at = "lock_ex"

\* The steps of an install that is refused the lock: the command starts
\* (it asks for the exclusive lock), then flock fails.
InstallStarts ==
  \E p \in Procs : /\ pc[p] = "idle" /\ pc'[p] = "lock_ex"
                   /\ ctx'[p].cmd = "install"
LockFails == \E i \in DOMAIN log : ~LockFailed(i) /\ LockFailed(i)'

\* C10: when the exclusive lock cannot be acquired, install returns an
\* error: the command is over with a non-zero result as soon as flock
\* fails, and none of its steps inserts a catalog row, creates a backing
\* directory or modifies the live tree.
C10_LockFailureDoesNothing ==
  /\ [](\A i \in DOMAIN log :
          LockFailed(i) => /\ log[i].status = "done" /\ log[i].res # 0
                           /\ log[i].serial = 0)
  /\ [][(InstallStarts \/ LockFails)
          => UNCHANGED <<archives, files, seq, expanded, compacted, live>>]_vars

C10_Witness ==
  \E i \in DOMAIN log :
    /\ LockFailed(i) /\ log[i].res = -1
    /\ archives # {}

\* The step issues uninstall on a layer that is a rollback layer.
UninstallOfRollback ==
  /\ Len(log') = Len(log) + 1
  /\ log'[Len(log')].cmd = "uninstall"
  /\ \E a \in archive(archives, log'[Len(log')].serial) : IsRollback(a)

\* C11: uninstall called directly on a rollback layer is refused with an
\* error, and leaves the catalog, the backing stores, the live tree and the
\* lock mode unchanged.
C11_RollbackUninstallRefused ==
  [][UninstallOfRollback =>
       /\ log'[Len(log')].status = "done" /\ log'[Len(log')].res # 0
       /\ UNCHANGED <<archives, files, seq, expanded, compacted, live, lock,
                      pc>>]_vars

C11_Witness ==
  \E i \in DOMAIN log :
    /\ log[i].cmd = "uninstall" /\ log[i].status = "done" /\ log[i].res = -1
    /\ \E a \in archive(archives, log[i].serial) :
         IsRollback(a) /\ FilesOf(files, a.serial) # {}
    /\ \E q \in Procs : q # 1 /\ lock[q] = "SH"

\* The step takes the rollback layer a, which holds file records, out of the
\* catalog: it deletes the last of its file records (prune_archives then
\* deletes the row) or deletes its row.
Vanishes(a) ==
  /\ IsRollback(a) /\ FilesOf(files, a.serial) # {}
  /\ FilesOf(files', a.serial) = {} \/ archive(archives', a.serial) = {}

\* The positions of an uninstall that holds the exclusive lock.
UninstallPositions ==
  {"u_begin", "u_deactivate", "u_files", "u_delete", "u_remove",
   "u_prune_directories", "u_prune_archives"}

\* The step belongs to the uninstall of the layer with the given serial.
UninstallStepOf(serial) ==
  \E p \in Procs : /\ pc[p] \in UninstallPositions
                   /\ ctx[p].archive = serial

\* C12 as stated: a rollback layer that holds file records is removed from
\* the catalog only during the uninstall of its paired visible layer, the
\* non-rollback layer with the next serial; the uninstall of any other layer
\* never removes it.
C12_RollbackGoesWithPair ==
  [][\A a \in archives : Vanishes(a) => UninstallStepOf(a.serial + 1)]_vars

\* C12 as amended: the rollback layer is removed only during an uninstall:
\* while its paired visible layer is in the catalog, during the uninstall of
\* that layer; once the paired layer is gone, during the uninstall of a layer
\* with a higher serial.
C12_RollbackGoesWithPair_Amended ==
  [][\A a \in archives :
       Vanishes(a) =>
          \/ UninstallStepOf(a.serial + 1)
          \/ /\ archive(archives, a.serial + 1) = {}
             /\ \E s \in (a.serial + 2)..seq.archives : UninstallStepOf(s)]_vars

\* An uninstall has just returned, and the rollback layer paired with the
\* layer it removed, which held bytes saved from the live tree, is gone too.
C12_Witness ==
  /\ AllIdle /\ log # <<>>
  /\ Done(Len(log), "uninstall")
  /\ (log[Len(log)].serial - 1) \in DOMAIN compacted
  /\ archive(archives, log[Len(log)].serial - 1) = {}
  /\ archives # {}

\* The installs (and the installs of upgrades) that committed their layers.
Committed == {i \in DOMAIN log : /\ log[i].cmd \in {"install", "upgrade"}
                                 /\ log[i].serial # 0}

\* The serials of the rows the step adds to table archives.
Serials(as) == {a.serial : a \in as}
NewSerials == Serials(archives') \ Serials(archives)

\* C13: serial order: within one install the rollback layer is inserted
\* before the visible layer, so rollback.serial + 1 = visible.serial, and both
\* serials are strictly greater than the serial of every layer committed to
\* the catalog before, deleted layers included: no committed serial is reused.
C13_SerialOrder ==
  [][/\ \A s \in NewSerials :
          /\ \A a \in archives : s > a.serial
          /\ \A i \in Committed : s > log[i].serial
     /\ \A a \in archives' :
          (a.serial \in NewSerials /\ IsRollback(a)) =>
             \E b \in archive(archives', a.serial + 1) :
                ~IsRollback(b) /\ b.serial \in NewSerials]_vars

\* A layer was committed after an older one had been deleted, and it has its
\* rollback layer.
C13_Witness ==
  \E i \in Committed, j \in Committed :
    /\ i < j
    /\ archive(archives, log[i].serial) = {}
    /\ \E a \in archive(archives, log[j].serial - 1) : IsRollback(a)
    /\ \E a \in archive(archives, log[j].serial) : ~IsRollback(a)

\* The rollback layer paired with the non-rollback layer a: the ROLLBACK
\* layer whose serial is one less (a set of zero or one row).
PairedRollback(a) == {r \in archive(archives, a.serial - 1) : IsRollback(r)}

\* C14 as stated: in every committed catalog state, a non-rollback layer and
\* its paired rollback layer have the same active flag.
C14_PairSameActive ==
  \A a \in archives :
    ~IsRollback(a) => \A r \in PairedRollback(a) : r.active = a.active

\* C14 as amended: the same, for a non-rollback layer whose active flag no
\* uninstall has cleared (uninstall sets active=0 on the layer it is given
\* and leaves the flag of the rollback layer as it is).
C14_PairSameActive_Amended ==
  \A a \in archives :
    (~IsRollback(a) /\ a.active # "0") =>
       \A r \in PairedRollback(a) : r.active = a.active

\* An activated pair, and a pair left as inserted by an install that failed
\* after its commit.
C14_Witness ==
  /\ AllIdle
  /\ \E a \in archives : /\ ~IsRollback(a) /\ a.active = "1"
                         /\ \E r \in PairedRollback(a) : r.active = "1"
  /\ \E a \in archives : /\ ~IsRollback(a) /\ a.active = "NULL"
                         /\ \E r \in PairedRollback(a) : r.active = "NULL"

\* C15: in every reachable catalog state, no file record flagged NO_ENTRY is
\* also flagged ROLLBACK_DATA or INSTALL_DATA.
C15_NoEntryCarriesNoData ==
  \A f \in files :
    INFO_TEST(f.info, {FILE_INFO_NO_ENTRY}) =>
      ~INFO_TEST(f.info, {FILE_INFO_ROLLBACK_DATA, FILE_INFO_INSTALL_DATA})

\* The catalog holds NO_ENTRY records of both origins (a path unknown to the
\* depot, and a path whose live object is gone though a layer recorded one)
\* next to records that carry ROLLBACK_DATA and INSTALL_DATA.
C15_Witness ==
  /\ \E f \in files : f.info = {FILE_INFO_NO_ENTRY, FILE_INFO_BASE_SYSTEM}
  /\ \E f \in files : f.info = {FILE_INFO_NO_ENTRY}
  /\ \E f \in files : INFO_TEST(f.info, {FILE_INFO_ROLLBACK_DATA})
  /\ \E f \in files : INFO_TEST(f.info, {FILE_INFO_INSTALL_DATA})

\* The displaced bytes of record f are in the backing store of its layer.
BackedUp(f) ==
  Backing(expanded, compacted, f.archive)[f.path] = ObjOf(f)

\* C16: no layer is ever marked active while it owns a file record flagged
\* ROLLBACK_DATA whose displaced bytes have not been copied into that layer's
\* backing store.
C16_ActiveHasRollbackBytes ==
  \A a \in archives :
    a.active = "1" =>
      \A f \in FilesOf(files, a.serial) :
        INFO_TEST(f.info, {FILE_INFO_ROLLBACK_DATA}) => BackedUp(f)

\* An active layer owns ROLLBACK_DATA records whose bytes are saved, and a
\* layer whose copy failed owns one whose bytes are not: it is not active.
C16_Witness ==
  /\ AllIdle
  /\ \E a \in archives :
       /\ a.active = "1"
       /\ \E f \in FilesOf(files, a.serial) :
            INFO_TEST(f.info, {FILE_INFO_ROLLBACK_DATA}) /\ BackedUp(f)
  /\ \E a \in archives :
       /\ a.active # "1"
       /\ \E f \in FilesOf(files, a.serial) :
            INFO_TEST(f.info, {FILE_INFO_ROLLBACK_DATA}) /\ ~BackedUp(f)

\* The step is the first of process p's command that changes the catalog:
\* the commit of an install's layers, or the transaction that opens an
\* uninstall.
BeginsMutating(p) ==
  \/ pc[p] = "commit" /\ pc'[p] = "compact"
  \/ pc[p] = "u_deactivate" /\ pc'[p] = "u_files"

\* Layer a is not active and the command of p is not the uninstall of it (or
\* of the visible layer it is paired with): an earlier command left it so.
LeftInactive(a, p) ==
  /\ a.active # "1"
  /\ ~(ctx[p].phase = "uninstall"
         /\ a.serial \in {ctx[p].archive, ctx[p].archive - 1})

\* C17: while the catalog holds a layer with active=false that was left by
\* an earlier interrupted or failed operation, neither install nor uninstall
\* of a different layer begins mutating the catalog or the live tree.
C17_InactiveBlocksOperations ==
  [][\A p \in Procs :
       BeginsMutating(p) => \A a \in archives : ~LeftInactive(a, p)]_vars

\* Layer a was committed by the install logged at i, which was killed or
\* returned, and is not activated.
LeftByInstall(a, i) ==
  /\ log[i].cmd = "install" /\ log[i].status \in {"killed", "done"}
  /\ log[i].serial # 0
  /\ a.serial \in {log[i].serial, log[i].serial - 1}
  /\ a.active # "1"

\* C18: every layer that an interrupted or failed install left committed in
\* the catalog but not activated is selected by the initialization
\* consistency scan, the scan for layers with active=false.
C18_ScanFindsInactive ==
  \A i \in DOMAIN log, a \in archives :
    LeftByInstall(a, i) => a.serial \in check_consistency(archives)

\* The step is the return of the install logged at i, in which extraction
\* or a step of the stage analysis (mkdir_p) failed.
ReturnsAfterAnalysisFailure(p, i) ==
  /\ ctx[p].li = i /\ ctx[p].cmd = "install"
  /\ log[i].status = "running" /\ log'[i].status = "done"
  /\ log[i].at \in {"extract", "mkdir_p"}

\* Neither layer of the install of p, nor a file record of them, nor a
\* backing directory of them is there after the step.
NothingLeftOf(p) ==
  \A s \in {ctx[p].archive, ctx[p].rollback} :
    /\ archive(archives', s) = {}
    /\ FilesOf(files', s) = {}
    /\ s \notin DOMAIN expanded'

\* The step is one of process p's, in the install logged at i, at or after
\* the failure of its extraction or of a step of its stage analysis.
StepAfterAnalysisFailure(p, i) ==
  /\ ctx[p].li = i /\ ctx[p].cmd = "install"
  /\ pc'[p] # pc[p]
  /\ log'[i].at \in {"extract", "mkdir_p"}

\* C19: if extraction or any step of stage analysis fails during install,
\* the catalog transaction is rolled back so that the catalog contains
\* neither of the two new layers nor any file record of them, the backing
\* directories of both layers are removed, and the live tree is unchanged.
C19_AnalysisFailureRollsBack ==
  [][\A p \in Procs, i \in DOMAIN log :
       /\ StepAfterAnalysisFailure(p, i) => live' = live
       /\ ReturnsAfterAnalysisFailure(p, i) =>
             (NothingLeftOf(p) /\ log'[i].res # 0)]_vars

\* The layers of the install process p is running that are in the catalog.
OwnLayers(p) ==
  {a \in archives : /\ ctx[p].phase = "install"
                    /\ a.serial \in {ctx[p].archive, ctx[p].rollback}}

\* The step marks layer a active.
BecomesActive(a) ==
  a.active # "1" /\ \E b \in archive(archives', a.serial) : b.active = "1"

\* The backup phase and the install phase of p's install have completed
\* successfully for every file record: the displaced bytes are saved and
\* every entry of the archive is in the live tree.
PhasesDone(p) ==
  /\ ctx[p].res = 0
  /\ \A f \in FilesOf(files, ctx[p].rollback) :
       INFO_TEST(f.info, {FILE_INFO_ROLLBACK_DATA}) => BackedUp(f)
  /\ \A f \in FilesOf(files, ctx[p].archive) : live[f.path] = ObjOf(f)

\* The step is the return of p's install, a phase of which failed after the
\* catalog commit.
ReturnsFailedAfterCommit(p) ==
  /\ pc[p] = "cleanup_rollback" /\ pc'[p] # "cleanup_rollback"
  /\ ctx[p].phase = "install" /\ ctx[p].res # 0
  /\ archive(archives, ctx[p].archive) # {}

\* The layers a step marks active are the two of one install, marked
\* together, after its backup phase and its install phase completed
\* successfully for every file record.
ActivatesAfterPhases ==
  \A a \in archives :
    BecomesActive(a) =>
       \E p \in Procs :
          /\ a \in OwnLayers(p) /\ PhasesDone(p)
          /\ \A b \in OwnLayers(p) : BecomesActive(b)

\* An install that returns after a phase failed past its commit leaves both
\* layers in the catalog with active=false, the value the consistency scan
\* selects.
StaysInactive ==
  \A p \in Procs :
    ReturnsFailedAfterCommit(p) =>
       \A a \in OwnLayers(p) : a.active = "0" /\ a \in archives'

\* C20: the two layers of an install are marked active, together in one
\* transaction, only after the backup phase and the install phase have
\* completed successfully for every file record; if any phase after the
\* catalog commit fails, both layers stay in the catalog with active=false.
C20_ActivationLast == [][ActivatesAfterPhases /\ StaysInactive]_vars

\* Process p is in the install phase of an install: iterate_files(archive,
\* install_file) is running.
InInstallPhase(p) == pc[p] = "install" /\ ctx[p].phase = "install"

\* Every record of p's rollback layer flagged ROLLBACK_DATA has its bytes in
\* the rollback backing store.
BackupComplete(p) ==
  \A f \in FilesOf(files, ctx[p].rollback) :
    INFO_TEST(f.info, {FILE_INFO_ROLLBACK_DATA}) => BackedUp(f)

\* C21: within one install every backup copy completes before the install
\* phase writes to a live path: the install phase runs only with res = 0 and
\* with the bytes of every ROLLBACK_DATA record of the rollback layer copied,
\* and an install writes to the live tree in its install phase only, so that
\* a failed backup leaves the live tree as it was.
C21_BackupBeforeInstall ==
  /\ [](\A p \in Procs :
          InInstallPhase(p) => (ctx[p].res = 0 /\ BackupComplete(p)))
  /\ [][\A p \in Procs :
          (ctx[p].phase = "install" /\ Mutating(p) /\ live' # live)
             => InInstallPhase(p)]_vars

\* An install is overwriting live paths after it saved the bytes of one of
\* them, and an earlier install whose copy failed has left its layer with
\* a ROLLBACK_DATA record whose bytes are not saved and whose live object is
\* as it was.
C21_Witness ==
  /\ \E p \in Procs :
       /\ InInstallPhase(p) /\ ctx[p].pos > 0
       /\ \E f \in FilesOf(files, ctx[p].rollback) :
            /\ INFO_TEST(f.info, {FILE_INFO_ROLLBACK_DATA}) /\ BackedUp(f)
            /\ live[f.path] # ObjOf(f)
  /\ \E i \in DOMAIN log :
       /\ log[i].cmd = "install" /\ log[i].status = "done" /\ log[i].res # 0
       /\ log[i].fault /\ log[i].post = log[i].pre
       /\ \E f \in FilesOf(files, log[i].serial - 1) :
            /\ INFO_TEST(f.info, {FILE_INFO_ROLLBACK_DATA}) /\ ~BackedUp(f)
            /\ live[f.path] = ObjOf(f)

\* The character verify is to print for record f when the live object at
\* <prefix>/<f.path> is o.
Classified(f, o) ==
  IF o.kind = "none" THEN "R"
  ELSE IF compare(f, File(0, 0, {}, f.path, o)) # FILE_INFO_IDENTICAL THEN "M"
  ELSE " "

\* The step is a verify command; its output is in the last entry of log'.
VerifyStep == Len(log') = Len(log) + 1 /\ log'[Len(log')].cmd = "verify"

\* C22: verify(L) classifies every file record of L against the live object
\* at <prefix>/<record path>: 'R' exactly when no object exists there, 'M'
\* exactly when an object exists and compare reports a difference, ' '
\* exactly when they are identical.
C22_VerifyClassifiesLive ==
  [][VerifyStep =>
       \A f \in FilesOf(files, log'[Len(log')].serial) :
         \E k \in DOMAIN log'[Len(log')].out :
           log'[Len(log')].out[k] =
             <<Classified(f, live[f.path]), f.path>>]_vars

\* The status lines printed so far by the install, upgrade and uninstall
\* commands, each a pair <<state, path>>.
StatusLines ==
  UNION {{log[i].out[k] : k \in DOMAIN log[i].out} :
           i \in {j \in DOMAIN log :
                    log[j].cmd \in {"install", "upgrade", "uninstall"}}}

\* C23: every per-file status line printed during install or uninstall
\* starts with one of the four characters 'A', 'U', 'R' or ' ', for every
\* combination of new file, live object and catalog predecessor.
C23_StatusLetters == \A l \in StatusLines : l[1] \in {"A", "U", "R", " "}

\* The paths of the chain: a directory, a directory in it, a file in that.
ChainPaths == {q \in Paths : Roots[5].tree[q] # None}

\* The first command installed the archive that adds the chain on a
\* destination where none of its paths existed.
ChainInstalled ==
  /\ log # <<>> /\ Done(1, "install") /\ log[1].root = 5
  /\ \A q \in ChainPaths : pristine[q] = None

\* C24: new directory chains are removed: after installing an archive that
\* adds directories a and a/b and a file a/b/c where none of them existed,
\* the catalog lists exactly one non-rollback layer, and after uninstalling
\* that layer none of a, a/b, a/b/c exists in the live tree.
C24_NewChainRemoved ==
  /\ (ChainInstalled /\ Len(log) = 1) =>
        Cardinality({a \in archives : ~IsRollback(a)}) = 1
  /\ (ChainInstalled /\ Len(log) = 2 /\ Done(2, "uninstall")
        /\ log[2].serial = log[1].serial) =>
        \A q \in ChainPaths : live[q] = None

\* The step is the catalog commit of the stage analysis of p's install.
AnalyzeStep(p) == pc[p] = "commit" /\ pc'[p] = "compact"

\* The entries of the archive p installs, and among them the paths that have
\* no predecessor record in the catalog.
Entries(p) == {q \in Paths : Roots[ctx[p].root].tree[q] # None}
Unknown(p) == {q \in Entries(p) : \A f \in files : f.path # q}

\* The records the step adds at path q: the new record, in the visible
\* layer, and the live-state record, in the rollback layer.
NewRecord(p, q) ==
  {f \in files' \ files : f.archive = ctx'[p].archive /\ f.path = q}
LiveRecord(p, q) ==
  {f \in files' \ files : f.archive = ctx'[p].rollback /\ f.path = q}

\* Record f describes the live state o: the object, or its absence.
Describes(f, o) ==
  IF o = None THEN INFO_TEST(f.info, {FILE_INFO_NO_ENTRY}) ELSE ObjOf(f) = o

\* A live object exists at q and is not a directory.
LiveNonDir(q) == live[q].kind \notin {"none", "dir"}

\* The live state at q is inserted into the rollback layer as a BASE_SYSTEM
\* record, flagged ROLLBACK_DATA exactly when a live non-directory exists.
BaselineCaptured(p, q) ==
  \E a \in LiveRecord(p, q) :
    /\ INFO_TEST(a.info, {FILE_INFO_BASE_SYSTEM}) /\ Describes(a, live[q])
    /\ INFO_TEST(a.info, {FILE_INFO_ROLLBACK_DATA}) <=> LiveNonDir(q)

\* The entry of p's archive at q differs from the live state in type or data.
TypeOrDataDiffers(p, q) ==
  \/ Roots[ctx[p].root].tree[q].kind # live[q].kind
  \/ Roots[ctx[p].root].tree[q].digest # live[q].digest

\* C25 as stated: baseline capture: when stage analysis meets a path that has
\* no predecessor record, it inserts the live state into the rollback layer
\* as a BASE_SYSTEM record; that record is flagged ROLLBACK_DATA, and the new
\* record INSTALL_DATA, exactly when a live object exists at the path and is
\* not a directory.
C25_BaselineCapture ==
  [][\A p \in Procs :
       AnalyzeStep(p) =>
         \A q \in Unknown(p) :
           /\ BaselineCaptured(p, q)
           /\ \E f \in NewRecord(p, q) :
                INFO_TEST(f.info, {FILE_INFO_INSTALL_DATA}) <=> LiveNonDir(q)]_vars

\* C25 as amended: the same for the live-state record; the new record is
\* flagged INSTALL_DATA exactly when a live non-directory exists at the path
\* or the new file differs from the live state in type or data (as it does
\* when nothing exists at the path).
C25_BaselineCapture_Amended ==
  [][\A p \in Procs :
       AnalyzeStep(p) =>
         \A q \in Unknown(p) :
           /\ BaselineCaptured(p, q)
           /\ \E f \in NewRecord(p, q) :
                INFO_TEST(f.info, {FILE_INFO_INSTALL_DATA})
                  <=> (LiveNonDir(q) \/ TypeOrDataDiffers(p, q))]_vars

\* The catalog holds the three kinds of baseline with their new records: a
\* saved non-directory (ROLLBACK_DATA, INSTALL_DATA), a directory under a
\* directory (neither flag), and an absence under a new file (INSTALL_DATA).
C25_Witness ==
  /\ \E a \in files, f \in files :
       /\ a.info = {FILE_INFO_BASE_SYSTEM, FILE_INFO_ROLLBACK_DATA}
       /\ f.archive = a.archive + 1 /\ f.path = a.path
       /\ INFO_TEST(f.info, {FILE_INFO_INSTALL_DATA})
  /\ \E a \in files, f \in files :
       /\ a.info = {FILE_INFO_BASE_SYSTEM} /\ a.kind = "dir"
       /\ f.archive = a.archive + 1 /\ f.path = a.path /\ f.info = {}
  /\ \E a \in files, f \in files :
       /\ a.info = {FILE_INFO_BASE_SYSTEM, FILE_INFO_NO_ENTRY}
       /\ f.archive = a.archive + 1 /\ f.path = a.path
       /\ INFO_TEST(f.info, {FILE_INFO_INSTALL_DATA})

\* The entries of p's archive whose path has a predecessor record, and that
\* record: the one of the newest layer holding the path.
Known(p) == Entries(p) \ Unknown(p)
Predecessor(q) ==
  file_preceded_by(files, [NULL EXCEPT !.archive = seq.archives + 2,
                                       !.path = q])

\* The live state at q differs from the predecessor record in type or data.
LiveDiffersFromPredecessor(q) ==
  \/ Predecessor(q).kind # live[q].kind
  \/ Predecessor(q).digest # live[q].digest

\* The step adds a live-state record flagged ROLLBACK_DATA at q.
FlaggedForBackup(p, q) ==
  \E a \in LiveRecord(p, q) : INFO_TEST(a.info, {FILE_INFO_ROLLBACK_DATA})

\* The step of p's install puts bytes at q into the rollback backing store
\* (a directory made there to hold them is no bytes).
SavesBytes(p, q) ==
  /\ ctx[p].phase = "install"
  /\ ctx[p].rollback \in DOMAIN expanded \cap DOMAIN expanded'
  /\ expanded'[ctx[p].rollback][q] # expanded[ctx[p].rollback][q]
  /\ expanded'[ctx[p].rollback][q].kind # "dir"

\* C26: when a catalog predecessor exists for the path, the live-state
\* record is flagged ROLLBACK_DATA exactly when the new file differs from the
\* live object in type or data, the live object differs from the predecessor
\* in type or data, and the live object exists; the install saves bytes of
\* flagged records only, so none when the live object is identical to the
\* predecessor.
C26_BackupOnlyUserChanges ==
  [][\A p \in Procs, q \in Paths :
       /\ (AnalyzeStep(p) /\ q \in Known(p)) =>
            (FlaggedForBackup(p, q)
               <=> /\ TypeOrDataDiffers(p, q)
                   /\ LiveDiffersFromPredecessor(q)
                   /\ live[q] # None)
       /\ SavesBytes(p, q) =>
            \E a \in FilesOf(files, ctx[p].rollback) :
              a.path = q /\ INFO_TEST(a.info, {FILE_INFO_ROLLBACK_DATA})]_vars

\* A layer replaced a file the user had changed since the last install, and
\* the changed bytes are saved; another layer replaced a file that was as
\* its predecessor recorded it, and its rollback layer holds nothing of it.
C26_Witness ==
  /\ \E a \in files :
       /\ a.info = {FILE_INFO_ROLLBACK_DATA} /\ BackedUp(a)
       /\ \E m \in DOMAIN mods : mods[m].path = a.path
                                 /\ mods[m].digest = a.digest
  /\ \E f \in files, g \in files :
       /\ g.path = f.path /\ g.archive < f.archive - 1
       /\ INFO_TEST(f.info, {FILE_INFO_INSTALL_DATA})
       /\ \A a \in FilesOf(files, f.archive - 1) : a.path # f.path

\* The analysis of p's install prints the status line <<c, q>>.
Displayed(p, c, q) ==
  \E k \in DOMAIN log'[ctx[p].li].out : log'[ctx[p].li].out[k] = <<c, q>>

\* C27 as stated: stage analysis inserts the live-state record into the
\* rollback layer, and counts it, exactly when the displayed state is not
\* ' ' or the path had no catalog predecessor; the new record is inserted
\* into the visible layer for every stage entry.
C27_InsertRollbackRecord ==
  [][\A p \in Procs :
       AnalyzeStep(p) =>
         \A q \in Entries(p) :
           /\ LiveRecord(p, q) # {}
                <=> (~Displayed(p, " ", q) \/ q \in Unknown(p))
           /\ LiveRecord(p, q) # {} => archive(archives', ctx'[p].rollback) # {}
           /\ NewRecord(p, q) # {}]_vars

\* C27 as amended: the live-state record is inserted, and counted, exactly
\* when the displayed state is not ' ' and the live object differs from the
\* catalog predecessor, or the path had no catalog predecessor.
C27_InsertRollbackRecord_Amended ==
  [][\A p \in Procs :
       AnalyzeStep(p) =>
         \A q \in Entries(p) :
           /\ LiveRecord(p, q) # {}
                <=> \/ /\ ~Displayed(p, " ", q)
                       /\ q \in Known(p)
                       /\ ~Describes(Predecessor(q), live[q])
                    \/ q \in Unknown(p)
           /\ LiveRecord(p, q) # {} => archive(archives', ctx'[p].rollback) # {}
           /\ NewRecord(p, q) # {}]_vars

\* An install updated ('U') a file that was as its predecessor recorded it
\* and put no record of it into its rollback layer, and an install put the
\* live state of a path with a predecessor into its rollback layer.
C27_Witness ==
  /\ \E f \in files, g \in files, i \in DOMAIN log :
       /\ g.path = f.path /\ g.archive < f.archive - 1
       /\ log[i].serial = f.archive /\ log[i].cmd = "install"
       /\ \E k \in DOMAIN log[i].out : log[i].out[k] = <<"U", f.path>>
       /\ \A a \in FilesOf(files, f.archive - 1) : a.path # f.path
  /\ \E a \in files, r \in archives :
       /\ r.serial = a.archive /\ IsRollback(r)
       /\ ~INFO_TEST(a.info, {FILE_INFO_BASE_SYSTEM})

\* The entries of p's archive at whose path no live object exists.
Added(p) == {q \in Entries(p) : live[q] = None}

\* C28: add case: when install adds a path at which no live object exists,
\* the new record gets INSTALL_DATA, no rollback bytes are saved (no record
\* of the path is flagged ROLLBACK_DATA, and nothing is copied for it), and
\* after the catalog commit the record that immediately precedes the new
\* record at that path is a NO_ENTRY record.
C28_AddCase ==
  [][\A p \in Procs, q \in Paths :
       /\ (AnalyzeStep(p) /\ q \in Added(p)) =>
            /\ ~FlaggedForBackup(p, q)
            /\ \E f \in NewRecord(p, q) :
                 /\ INFO_TEST(f.info, {FILE_INFO_INSTALL_DATA})
                 /\ INFO_TEST(file_preceded_by(files', f).info,
                              {FILE_INFO_NO_ENTRY})
       /\ SavesBytes(p, q) => live[q] # None]_vars

\* A new record with INSTALL_DATA follows the NO_ENTRY record its own install
\* put into its rollback layer, and another follows a NO_ENTRY record of an
\* older layer (nothing was inserted for it); a rollback store holds bytes.
C28_Witness ==
  /\ \E f \in files :
       /\ INFO_TEST(f.info, {FILE_INFO_INSTALL_DATA})
       /\ file_preceded_by(files, f).archive = f.archive - 1
       /\ file_preceded_by(files, f).info
            = {FILE_INFO_BASE_SYSTEM, FILE_INFO_NO_ENTRY}
  /\ \E f \in files :
       /\ INFO_TEST(f.info, {FILE_INFO_INSTALL_DATA})
       /\ file_preceded_by(files, f) # NULL
       /\ file_preceded_by(files, f).archive < f.archive - 1
       /\ INFO_TEST(file_preceded_by(files, f).info, {FILE_INFO_NO_ENTRY})
  /\ \E a \in files :
       INFO_TEST(a.info, {FILE_INFO_ROLLBACK_DATA}) /\ BackedUp(a)

\* The entry of p's archive at q and the live object there differ only in
\* mode, uid or gid: both exist, with the same type and the same data.
MetadataOnly(p, q) ==
  /\ q \in Entries(p) /\ live[q] # None
  /\ ~TypeOrDataDiffers(p, q)
  /\ Roots[ctx[p].root].tree[q] # live[q]

\* The analysis of a metadata-only entry: state 'U', the new record without
\* INSTALL_DATA, no live-state record flagged ROLLBACK_DATA.
MetadataUpdate(p, q) ==
  /\ Displayed(p, "U", q)
  /\ \E f \in NewRecord(p, q) : ~INFO_TEST(f.info, {FILE_INFO_INSTALL_DATA})
  /\ ~FlaggedForBackup(p, q)

\* The step of p's install phase changes the live object at q.
InstallsAt(p, q) == InInstallPhase(p) /\ live'[q] # live[q]

\* C29 as stated: metadata-only update: when the new file and the live
\* object differ only in mode, uid or gid, the state is 'U', the new record
\* is stored without INSTALL_DATA, and the install phase changes only
\* metadata at that path: no bytes are backed up or copied.
C29_MetadataOnlyUpdate ==
  [][\A p \in Procs, q \in Paths :
       /\ (AnalyzeStep(p) /\ MetadataOnly(p, q)) => MetadataUpdate(p, q)
       /\ (SavesBytes(p, q) /\ ctx[p].phase = "install") => ~MetadataOnly(p, q)
       /\ (InstallsAt(p, q) /\ MetadataOnly(p, q)) =>
            \E f \in FilesOf(files, ctx[p].archive) :
              /\ f.path = q /\ ~INFO_TEST(f.info, {FILE_INFO_INSTALL_DATA})
              /\ live'[q] = [live[q] EXCEPT !.mode = f.mode, !.uid = f.uid,
                                            !.gid = f.gid]]_vars

\* The path has a catalog predecessor, or the live object is a directory.
KnownOrDirectory(p, q) == q \in Known(p) \/ live[q].kind = "dir"

\* Before the catalog commit of p's install the predecessor is looked up in
\* the catalog as it is; after it, below the layers of the install.
KnownOrDirectoryNow(p, q) ==
  \/ live[q].kind = "dir"
  \/ \E f \in files :
        f.path = q /\ (pc[p] \in BeforeCommit \/ f.archive < ctx[p].rollback)

\* C29 as amended: the same, for a path that has a catalog predecessor or
\* whose live object is a directory (a live non-directory that the catalog
\* does not know is saved and replaced as a whole: baseline capture).
C29_MetadataOnlyUpdate_Amended ==
  [][\A p \in Procs, q \in Paths :
       /\ (AnalyzeStep(p) /\ MetadataOnly(p, q) /\ KnownOrDirectoryNow(p, q))
            => MetadataUpdate(p, q)
       /\ (SavesBytes(p, q) /\ ctx[p].phase = "install"
             /\ KnownOrDirectoryNow(p, q)) => ~MetadataOnly(p, q)
       /\ (InstallsAt(p, q) /\ MetadataOnly(p, q)
             /\ KnownOrDirectoryNow(p, q)) =>
            \E f \in FilesOf(files, ctx[p].archive) :
              /\ f.path = q /\ ~INFO_TEST(f.info, {FILE_INFO_INSTALL_DATA})
              /\ live'[q] = [live[q] EXCEPT !.mode = f.mode, !.uid = f.uid,
                                            !.gid = f.gid]]_vars

\* An install has changed the mode, and nothing else, of a regular file that
\* an earlier layer recorded: its record has no INSTALL_DATA, its rollback
\* layer holds no record of the path, and the live file has the new mode.
C29_Witness ==
  \E i \in DOMAIN log, f \in files :
    /\ Done(i, "install") /\ f.archive = log[i].serial
    /\ f.kind = "reg" /\ f.info = {}
    /\ log[i].pre[f.path] = [ObjOf(f) EXCEPT !.mode = log[i].pre[f.path].mode]
    /\ log[i].pre[f.path].mode # f.mode
    /\ log[i].post[f.path] = ObjOf(f)
    /\ \E k \in DOMAIN log[i].out : log[i].out[k] = <<"U", f.path>>
    /\ \A a \in FilesOf(files, f.archive - 1) : a.path # f.path

\* The stage analysis of p's install has a live-state record to insert: an
\* entry at a path the catalog does not know, or one that is not displayed
\* ' ' and whose live object is not what its predecessor recorded.
InsertsLiveRecord(p) ==
  \E q \in Entries(p) :
    \/ q \in Unknown(p)
    \/ ~Displayed(p, " ", q) /\ ~Describes(Predecessor(q), live[q])

\* The step of p's install comes after the catalog commit of its analysis.
AfterCommit(p) ==
  /\ ctx[p].phase = "install"
  /\ pc[p] \in {"compact", "backup", "install", "activate", "cleanup",
              "cleanup_rollback"}
  /\ ctx[p].res = 0

\* C30: after a successful install, the paired rollback layer exists in the
\* catalog if and only if stage analysis inserted at least one file record
\* into it; a rollback layer that received zero records is deleted before the
\* catalog commit (and the rest of the install neither adds nor removes the
\* layer, and leaves its records as the commit left them).
C30_RollbackLayerIffRecords ==
  [][\A p \in Procs :
       /\ AnalyzeStep(p) =>
            /\ archive(archives', ctx'[p].rollback) # {} <=> InsertsLiveRecord(p)
            /\ FilesOf(files', ctx'[p].rollback) # {} <=> InsertsLiveRecord(p)
            /\ archive(archives', ctx'[p].archive) # {}
       /\ AfterCommit(p) =>
            /\ archive(archives', ctx[p].rollback) # {}
                 <=> archive(archives, ctx[p].rollback) # {}
            /\ FilesOf(files', ctx[p].rollback)
                 = FilesOf(files, ctx[p].rollback)]_vars

\* Two successful installs in a row: the first displaced something and its
\* rollback layer is in the catalog with records; the second changed nothing
\* (every line ' ') and the catalog has no rollback layer under its layer.
C30_Witness ==
  \E i \in DOMAIN log :
    /\ i + 1 = Len(log)
    /\ Done(i, "install") /\ Done(i + 1, "install")
    /\ archive(archives, log[i].serial - 1) # {}
    /\ FilesOf(files, log[i].serial - 1) # {}
    /\ log[i + 1].out # <<>>
    /\ \A k \in DOMAIN log[i + 1].out : log[i + 1].out[k][1] = " "
    /\ archive(archives, log[i + 1].serial) # {}
    /\ archive(archives, log[i + 1].serial - 1) = {}
    /\ FilesOf(files, log[i + 1].serial - 1) = {}

\* p is inside Depot::uninstall, past the request for the exclusive lock.
InUninstall(p) == pc[p] \in UninstallPositions

\* The catalog holds the layer with active = 0.
Deactivated(as, serial) ==
  \E a \in as : a.serial = serial /\ a.active = "0"

\* The step ends p's uninstall after the transaction that cleared the flag
\* and short of the removal of the layer: a failure or a kill.
UninstallCutShort(p) ==
  /\ pc[p] \in {"u_files", "u_delete", "u_remove"}
  /\ pc'[p] = "idle"
  /\ ~(log'[ctx[p].li].status = "done" /\ log'[ctx[p].li].res = 0)

\* C31: uninstall(L) commits active = false for L before it removes or
\* overwrites any live path; when the uninstall fails or is killed after
\* that point and before L's row is deleted, L is still in the catalog with
\* active = false.
C31_DeactivatedBeforeMutation ==
  [][\A p \in Procs :
       /\ (InUninstall(p) /\ live' # live)
            => Deactivated(archives, ctx[p].archive)
       /\ UninstallCutShort(p) => Deactivated(archives', ctx[p].archive)]_vars

\* An uninstall was killed after it had changed the live tree, and its layer
\* is in the catalog with active = 0.
C31_Witness ==
  \E i \in DOMAIN log :
    /\ log[i].cmd = "uninstall" /\ log[i].status = "killed"
    /\ log[i].post # log[i].pre
    /\ Deactivated(archives, log[i].serial)

\* A layer with a higher serial than L holds a file record at path q.
HeldAbove(fs, serial, q) == \E f \in fs : f.path = q /\ f.archive > serial

\* C32: uninstall(L) never removes or overwrites the live object at a path
\* for which a layer with a higher serial than L holds a file record.
C32_SupersededPathsUntouched ==
  [][\A p \in Procs, q \in Paths :
       (InUninstall(p) /\ HeldAbove(files, ctx[p].archive, q))
         => live'[q] = live[q]]_vars

\* A successful uninstall went over a path that a higher layer still records
\* (line ' '), left the object there as it was, and changed the live tree at
\* another path.
C32_Witness ==
  \E i \in DOMAIN log, q \in Paths :
    /\ Done(i, "uninstall") /\ i = Len(log)
    /\ \E k \in DOMAIN log[i].out : log[i].out[k] = <<" ", q>>
    /\ HeldAbove(files, log[i].serial, q)
    /\ log[i].pre[q] # None /\ log[i].post[q] = log[i].pre[q]
    /\ log[i].post # log[i].pre

\* The step is p's uninstall_file call on a record of its layer (and not
\* the death of the process).
UninstallFileStep(p) ==
  /\ pc[p] = "u_files"
  /\ NextFile(files, ctx[p].archive, ctx[p].pos) # NULL
  /\ ctx'[p] # ctx[p]
  /\ log'[ctx[p].li].status # "killed"

\* The record the call is about, and the record that precedes it.
Current(p) == NextFile(files, ctx[p].archive, ctx[p].pos)
Preceding(p) == file_preceded_by(files, Current(p))

\* The record is not BASE_SYSTEM, the live object is as the record says, no
\* higher layer holds the path, and the predecessor records an object.
RestorableUnmodified(p) ==
  /\ ~INFO_TEST(Current(p).info, {FILE_INFO_BASE_SYSTEM})
  /\ FileFactory(live, Current(p).path) # NULL
  /\ compare(Current(p), FileFactory(live, Current(p).path))
       = FILE_INFO_IDENTICAL
  /\ file_superseded_by(files, Current(p)) = NULL
  /\ Preceding(p) # NULL
  /\ ~INFO_TEST(Preceding(p).info, {FILE_INFO_NO_ENTRY})

\* The call re-installs the predecessor: it prints 'U' and, unless the
\* install fails, the live object has the predecessor's type and data.
Reinstalls(p) ==
  /\ Displayed(p, "U", Current(p).path)
  /\ log'[ctx[p].li].res = 0 =>
       /\ live'[Current(p).path].kind = Preceding(p).kind
       /\ live'[Current(p).path].digest = Preceding(p).digest

\* C33: in uninstall, for a record that is unmodified on disk and has no
\* superseding record, when its predecessor is not NO_ENTRY the
\* predecessor's content is re-installed on the live tree whenever the
\* comparison of the record with the predecessor reports a type difference
\* or a data difference (either one alone suffices).
C33_RestoreOnTypeOrData ==
  [][\A p \in Procs :
       (/\ UninstallFileStep(p)
        /\ RestorableUnmodified(p)
        /\ INFO_TEST(compare(Current(p), Preceding(p)), {"TYPE", "DATA"}))
         => Reinstalls(p)]_vars

\* The same for a data difference and a predecessor that is not a
\* directory (an existing object in the place of a directory only has its
\* mode and owner adjusted): what the code does.
C33_RestoreOnData ==
  [][\A p \in Procs :
       (/\ UninstallFileStep(p)
        /\ RestorableUnmodified(p)
        /\ Preceding(p).kind # "dir"
        /\ INFO_TEST(compare(Current(p), Preceding(p)), {"DATA"}))
         => Reinstalls(p)]_vars

\* The live object at the path of the record of p's uninstall_file call is
\* gone: the user deleted what the layer installed there.
DeletedByUser(p) ==
  /\ ~INFO_TEST(Current(p).info, {FILE_INFO_BASE_SYSTEM})
  /\ Current(p).kind # "noent"
  /\ FileFactory(live, Current(p).path) = NULL
  /\ \E k \in DOMAIN mods :
       /\ mods[k].path = Current(p).path /\ mods[k].digest = 0
       /\ mods[k].old = ObjOf(Current(p))

\* C34: when the user deleted a live file that layer L installed,
\* uninstall(L) treats the path as changed since install and leaves the path
\* absent instead of re-creating it from the predecessor.
C34_DeletedStaysAbsent ==
  [][\A p \in Procs :
       (UninstallFileStep(p) /\ DeletedByUser(p))
         => live'[Current(p).path] = None]_vars

\* The records uninstall_file looks the predecessor up for: those of a
\* non-rollback layer that are not BASE_SYSTEM and have no superseding record.
Asserted(fs, as) ==
  {f \in fs : /\ \E a \in as : a.serial = f.archive /\ ~IsRollback(a)
              /\ ~INFO_TEST(f.info, {FILE_INFO_BASE_SYSTEM})
              /\ file_superseded_by(fs, f) = NULL}

\* Every such record has a preceding record.
PrecedingRecorded == \A f \in Asserted(files, archives) :
                       file_preceded_by(files, f) # NULL

\* No uninstall ended on the failed assertion.
NoAssertFails == \A i \in DOMAIN log : log[i].status # "aborted"

\* C35: the assertion in uninstall never fails: in every reachable catalog
\* state every file record of a non-rollback layer that is not BASE_SYSTEM
\* and has no superseding record has a preceding record, a record with the
\* same path in a layer with a lower serial.
C35_AssertNeverFails == PrecedingRecorded /\ NoAssertFails

\* An uninstall has deleted the predecessor rows it scheduled and not yet
\* the rows of its layer, and a record of the layer whose predecessor went
\* still has a preceding record.
C35_Witness ==
  \E p \in Procs :
    /\ pc[p] = "u_remove" /\ ctx[p].files_to_remove # {}
    /\ \E f \in FilesOf(files, ctx[p].archive) \cap Asserted(files, archives),
          i \in DOMAIN log :
         /\ file_preceded_by(files, f) # NULL
         /\ log[i].serial = f.archive /\ log[i].cmd = "install"
         /\ f.archive - file_preceded_by(files, f).archive > 1
         /\ \E k \in DOMAIN log[ctx[p].li].out :
              log[ctx[p].li].out[k] = <<"U", f.path>>

\* p's uninstall_file call re-installs the predecessor's content: the record
\* is not BASE_SYSTEM, the live object is not taken as changed, no higher
\* layer holds the path, and the predecessor records an object that differs
\* from the record in data.
RestoresContent(p) ==
  /\ UninstallFileStep(p)
  /\ ~INFO_TEST(Current(p).info, {FILE_INFO_BASE_SYSTEM})
  /\ ~ChangedSinceInstall(FileFactory(live, Current(p).path),
                          compare(Current(p),
                                  FileFactory(live, Current(p).path)))
  /\ file_superseded_by(files, Current(p)) = NULL
  /\ Preceding(p) # NULL
  /\ ~INFO_TEST(Preceding(p).info, {FILE_INFO_NO_ENTRY})
  /\ INFO_TEST(compare(Current(p), Preceding(p)), {"DATA"})

\* The layer's backing store delivers the object the record describes.
BytesSaved(f) ==
  Describes(f, Backing(expanded, compacted, f.archive)[f.path])

\* The record is one of a present non-rollback layer, or a rollback-layer
\* record flagged ROLLBACK_DATA, and its bytes are in the layer's store.
BytesAvailable(f) ==
  /\ \E a \in archives :
       /\ a.serial = f.archive
       /\ IsRollback(a) => INFO_TEST(f.info, {FILE_INFO_ROLLBACK_DATA})
  /\ BytesSaved(f)

\* C36: whenever uninstall re-installs a predecessor's content, the
\* predecessor's bytes are available: the predecessor is a record of a
\* still-present non-rollback layer, restored from that layer's payload
\* snapshot, or a rollback-layer record flagged ROLLBACK_DATA whose bytes
\* were saved; it is never a rollback-layer record of an existing object
\* stored without ROLLBACK_DATA.  (A directory has no bytes to save: the
\* statement is taken for predecessors that are not directories.)
C36_PredecessorBytesAvailable ==
  [][\A p \in Procs :
       (RestoresContent(p) /\ Preceding(p).kind # "dir")
          => BytesAvailable(Preceding(p))]_vars

\* The step is the successful return of p's uninstall.
UninstallSucceeds(p) ==
  /\ pc[p] = "u_prune_archives" /\ pc'[p] = "idle"
  /\ log'[ctx[p].li].status = "done" /\ log'[ctx[p].li].res = 0

\* C37: after uninstall(L) returns success, the catalog contains no layer
\* row for L, no file record owned by L, and no layer row of any kind that
\* owns zero file records.
C37_UninstallLeavesNoEmptyLayer ==
  [][\A p \in Procs :
       UninstallSucceeds(p) =>
         /\ archive(archives', ctx[p].archive) = {}
         /\ FilesOf(files', ctx[p].archive) = {}
         /\ \A a \in archives' : FilesOf(files', a.serial) # {}]_vars

\* The one uninstall of the behaviour has returned success: its layer and
\* its rollback layer are gone, and so is the layer of an archive without
\* entries that was installed before it and had no file record.
C37_Witness ==
  \E i \in DOMAIN log, j \in DOMAIN log :
    /\ i = Len(log) /\ Done(i, "uninstall")
    /\ \A k \in DOMAIN log : log[k].cmd = "uninstall" => k = i
    /\ Done(j, "install") /\ log[j].root = 4 /\ log[j].serial # log[i].serial
    /\ archive(archives, log[j].serial) = {}
    /\ archive(archives, log[i].serial) = {}
    /\ archive(archives, log[i].serial - 1) = {}
    /\ log[i].post # log[i].pre
    /\ archives # {}

\* The record belongs to a rollback layer of the catalog.
InRollbackLayer(f) ==
  \E a \in archives : a.serial = f.archive /\ IsRollback(a)

\* C38: uninstall(L) deletes file records only of L itself and of rollback
\* layers: it never deletes a file record owned by another non-rollback
\* layer, and it never deletes a record flagged BASE_SYSTEM.
C38_UninstallDeletesOwnAndRollback ==
  [][\A p \in Procs :
       InUninstall(p) =>
         \A f \in files \ files' :
           /\ f.archive = ctx[p].archive \/ InRollbackLayer(f)
           /\ ~INFO_TEST(f.info, {FILE_INFO_BASE_SYSTEM})]_vars

\* An uninstall has deleted the predecessor rows it scheduled, and the
\* catalog still holds the records of its layer, a record of another
\* non-rollback layer, a record of a rollback layer that is not BASE_SYSTEM,
\* and a BASE_SYSTEM record.
C38_Witness ==
  \E p \in Procs :
    /\ pc[p] = "u_remove" /\ ctx[p].files_to_remove # {}
    /\ \A f \in files : f.serial \notin ctx[p].files_to_remove
    /\ FilesOf(files, ctx[p].archive) # {}
    /\ \E f \in files, a \in archives :
         a.serial = f.archive /\ ~IsRollback(a) /\ a.serial # ctx[p].archive
    /\ \E f \in files :
         InRollbackLayer(f) /\ ~INFO_TEST(f.info, {FILE_INFO_BASE_SYSTEM})
    /\ \E f \in files : INFO_TEST(f.info, {FILE_INFO_BASE_SYSTEM})

\* The serials of the layers that satisfy the superseded predicate: the
\* non-rollback layers every file record of which has a record with equal
\* path in a layer with a higher serial.
SupersededLayers(as, fs) ==
  {a.serial : a \in {b \in as : /\ ~IsRollback(b)
                               /\ \A f \in FilesOf(fs, b.serial) :
                                    HeldAbove(fs, b.serial, f.path)}}

\* p is uninstalling a layer that satisfies the superseded predicate.
UninstallsSuperseded(p) ==
  /\ InUninstall(p)
  /\ ctx'[p] # ctx[p] \/ pc'[p] # pc[p]
  /\ ctx[p].archive \in SupersededLayers(archives, files)

\* p's uninstall has removed its layer and is pruning: prune_directories,
\* prune_archives and the return.
UninstallPrunes(p) ==
  /\ pc[p] \in {"u_prune_directories", "u_prune_archives"}
  /\ pc'[p] # pc[p]

\* C39: uninstalling superseded layers is invisible on disk: uninstalling
\* every layer that satisfies the superseded predicate, one after another in
\* any order, leaves the live tree unchanged, and afterwards no remaining
\* non-rollback layer satisfies the superseded predicate.  Step by step: a
\* step of the uninstall of a superseded layer leaves the live tree as it is
\* and does not fail; the layer stays superseded until it is gone, in the
\* transaction that removes it; no layer becomes superseded, and every other
\* superseded layer stays so or is gone; the pruning that ends an uninstall
\* leaves the live tree as it is and makes no layer superseded.
C39_SupersededInvisible ==
  [][\A p \in Procs :
       /\ UninstallsSuperseded(p) =>
            /\ live' = live
            /\ log'[ctx[p].li].status = "done" => log'[ctx[p].li].res = 0
            /\ log'[ctx[p].li].status # "aborted"
            /\ pc'[p] = "u_prune_directories"
                 <=> archive(archives', ctx[p].archive) = {}
            /\ SupersededLayers(archives', files')
                 = (SupersededLayers(archives, files) \cap Serials(archives'))
       /\ UninstallPrunes(p) =>
            /\ live' = live
            /\ SupersededLayers(archives', files')
                 = (SupersededLayers(archives, files) \cap Serials(archives'))]_vars

\* Two superseded layers have been uninstalled one after the other: each
\* printed ' ' for every record and left the live tree as it was, a
\* non-rollback layer with records remains, and none is superseded.
C39_Witness ==
  \E i \in DOMAIN log :
    /\ i + 1 = Len(log)
    /\ \A k \in {i, i + 1} :
         /\ Done(k, "uninstall")
         /\ log[k].out # <<>>
         /\ \A n \in DOMAIN log[k].out : log[k].out[n][1] = " "
         /\ log[k].post = log[k].pre
         /\ \A q \in Paths : \A n \in DOMAIN log[k].out :
              log[k].out[n][2] = q => HeldAbove(files, log[k].serial, q)
    /\ SupersededLayers(archives, files) = {}
    /\ \E a \in archives : ~IsRollback(a) /\ FilesOf(files, a.serial) # {}
    /\ live # pristine

\* The behaviour so far is one invocation "install a b c ...": the commands
\* are installs that have returned, one per argument, and their results.
InstallInvocation ==
  /\ log # <<>>
  /\ \A i \in DOMAIN log : log[i].cmd = "install" /\ log[i].status = "done"
Results == [i \in DOMAIN log |-> log[i].res]

\* C40: when a command is given several arguments (install a b c), the exit
\* status of the process is non-zero whenever the operation failed for at
\* least one of the arguments, whether or not later arguments succeeded.
C40_ExitStatusOfSeveral ==
  (InstallInvocation /\ \E i \in DOMAIN log : log[i].res # 0)
    => exit_status(main_res(Results, 1, 0)) # 0

====
